---- MODULE Spec2Model ----
(***************************************************************************)
(* A model of xiaoya-emby: the metadata mirror selector, the remote tree   *)
(* walkers, the download engine, the placeholder rewrite, the file index   *)
(* and the compare / prepare / sync reconciliation, each translated from   *)
(* src/engine/metadata.go, src/engine/config.go and src/engine/alist.go.   *)
(*                                                                         *)
(* The module holds several specifications over one set of variables; a    *)
(* specification leaves the variables of the components it does not run    *)
(* at their idle values.                                                   *)
(***************************************************************************)
EXTENDS Integers, Sequences, FiniteSets, TLC

VARIABLES
    \* ---- mirror selector (MetadataCrawler.validateMirrors / activeMirrors)
    mcState,        \* "constructing" | "running" | "failed": NewMetadataCrawler
    attempts,       \* validateMirrors calls made by NewMetadataCrawler (0..3)
    vpc,            \* position in validateMirrors: "idle" | "probing" | "published" | "failed"
    vIdx,           \* index into mc.mirrors of the next mirror to probe
    mirrorsToSort,  \* the local slice of sortMirror built by the running cycle
    validMirrors,   \* mc.validMirrors, the shared ranked list
    probeStats,     \* history: per mirror of the running cycle, what its probes returned
    lastCompleted,  \* history: the complete ranking computed by the last successful cycle
    readerList,     \* per reader: the list it obtained from activeMirrors (<<0>> = none yet)
    readerExpected  \* history: per reader, lastCompleted at the moment of its activeMirrors call

VARIABLES
    \* ---- the remote tree and a Walk over it (MetadataCrawler.Walk, AlistClient.Walk)
    walkVariant,    \* "crawler" (MetadataCrawler.Sync's walk) | "alist" (generateAlistDB's walk)
    selectedPaths,  \* mc.selectedPaths: the allow-listed top-level names
    remoteTree,     \* the remote tree: a set of [path, isdir]
    wpc,            \* "ready" | "walking" | "returned": the call of Walk
    stack,          \* the active calls of walk that are in their child loop: the
                    \* directory, its entries sorted, the loop index and, as
                    \* history, the entries as ReadDir returned them
    walkResult,     \* what Walk returned ("none" while it runs)
    visitLog,       \* history: the calls of the visit callback, in order
    readDirLog,     \* history: the paths ReadDir was called with, in order
    spawned,        \* the download tasks the callback of Sync started
    alistTx,        \* generateAlistDB: the paths inserted in its transaction
    statErr,        \* history: what Stat of the root returned ("none" before it)
    alistDB,        \* the rows of .alist.db: the paths committed to it
    genResult       \* what generateAlistDB returned ("none" while it runs)

VARIABLES
    \* ---- the download engine (MetadataCrawler.Sync, Download, download)
    dlIndex,        \* the download index (.metadata.db): path -> row
    dlFiles,        \* the download directory: path -> "old" | "partial" | "new"
    syncpc,         \* "walk" | "retry" | "returned": the position of Sync
    syncResult,     \* what Sync returned ("none" while it runs)
    running,        \* the tasks that hold a slot of workerChan
    finished,       \* the tasks of the current batch that are done (wg.Done)
    failed,         \* the slice failed, as the set of its entries: its order only
                    \* decides in which order the goroutines of a round start
    failed2,        \* the slice failed2, likewise
    retry,          \* the counter retry
    rounds,         \* history: the batch rounds started at FINAL
    decisions,      \* history: path -> what the download predicate returned
    commits,        \* history: path -> the upserts committed for it
    lastAttempt     \* history: path -> how the last task run for it went: whether
                    \* db.Begin succeeded, the mirrors Download contacted, in
                    \* order, each with whether download returned an error,
                    \* and whether the task recorded a failure

walkVars == <<walkVariant, selectedPaths, remoteTree, wpc, stack, walkResult,
              visitLog, readDirLog, spawned, alistTx, statErr, alistDB, genResult>>

mirrorVars == <<mcState, attempts, vpc, vIdx, mirrorsToSort, validMirrors,
                probeStats, lastCompleted, readerList, readerExpected>>

VARIABLES
    \* ---- the placeholder rewrite of Config.syncMetadata
    rwVariant,      \* "live" (metadata.go) | "cached" (config.go): which syncMetadata
    rwRoot,         \* cfg.AlistStrmRootPath
    rwRemainder,    \* input: what follows the source endpoint and /d in the placeholder
    rwContent,      \* the bytes of the placeholder in the download directory
    rwWritten,      \* the bytes written to the served path
    rwpc            \* "ready" | "written" | "panic"

rewriteVars == <<rwVariant, rwRoot, rwRemainder, rwContent, rwWritten, rwpc>>

VARIABLES
    \* ---- one file index (the table "files" of a .metadata.db or .alist.db)
    idxRows,        \* the table: path -> its row, NoIndexRow when there is none
    idxWritten,     \* history: path -> the record last stored by updateToDB
    idxRead         \* the records the last pickFirstFile or listFiles returned

indexVars == <<idxRows, idxWritten, idxRead>>

VARIABLES
    \* ---- the reconciliation (Config.Run: download, compare, prepare, sync)
    purge,           \* cfg.Purge
    alistFiles,        \* the files the listing service (Alist) has, by path
    servedIndex,     \* the served index (MediaDir/.metadata.db): path -> row
    servedFiles,     \* the served directory: path -> the bytes of the file
    reconpc,         \* the stage to run: "download" | "compare" | "prepare" |
                     \* "sync" | "done" | "failed"
    run,             \* the number of the run in progress
    filesToPreserve, \* what compareMetadata returned
    filesNeedUpdate, \* what prepareMetadataUpdate returned
    runLog,          \* history: what the run in progress wrote and changed
    faulted,         \* history: a failure that no stage reported has happened
    candidates,      \* history: the placeholders that had a served file and an
                     \* absent target when Compare of this run started
    servedBefore,    \* history: the served index and directory as Prepare of
                     \* this run found them
    htmlAnswers      \* the paths for which the mirrors answer with an html page

reconVars == <<purge, alistFiles, servedIndex, servedFiles, reconpc, run, filesToPreserve,
               filesNeedUpdate, runLog, faulted, candidates, servedBefore, htmlAnswers>>

syncVars == <<dlIndex, dlFiles, syncpc, syncResult, running, finished, failed,
              failed2, retry, rounds, decisions, commits, lastAttempt>>

VARIABLES
    \* ---- the orchestrator (Config.Run) and the command that starts it
    orchVariant,     \* "live" (metadata.go) or "cached" (config.go)
    RunMode,         \* cfg.RunMode, a bit mask
    RunAsDaemon,     \* cfg.RunAsDaemon
    opc,             \* the label Run is at: "METADATA" | "ALIST" | "COMPARE" |
                     \* "PREPARE" | "SYNC" | "WAIT" | "send" | "returned"
    pending,         \* the channel sends Run has to do before it returns
    ecodeCh,         \* the channel of statuses, of capacity one
    errCh,           \* the channel of errors, of capacity one
    mainpc,          \* the command: "recvEcode" | "recvErr" | "exited" | "returned"
    mainEcode,       \* the status the command received
    mainErr,         \* the error the command received
    exitCode,        \* the status the process ended with
    stageLog         \* history: the stages Run executed and how each ended

runVars == <<orchVariant, RunMode, RunAsDaemon, opc, pending, ecodeCh, errCh, mainpc,
             mainEcode, mainErr, exitCode, stageLog>>

VARIABLES
    \* ---- compareMetadata on its own, in its two variants
    cmpVariant,          \* "live" (metadata.go) or "cached" (config.go)
    cmpPurge,            \* cfg.Purge
    cmpContents,         \* path of a cached placeholder -> the bytes of its file
    cmpListing,          \* the paths the listing service, or its snapshot, has
    StrmPathSkipVerify,  \* cfg.StrmPathSkipVerify after Validate
    AlistPathSkipVerify, \* cfg.AlistPathSkipVerify after Validate
    cmppc,               \* "ready" | "done" | "failed"
    cmpPreserve,         \* the preserve set compareMetadata returned
    cmpFailedDirs        \* history: the directories whose ReadDir failed

compareVars == <<cmpVariant, cmpPurge, cmpContents, cmpListing, StrmPathSkipVerify,
                 AlistPathSkipVerify, cmppc, cmpPreserve, cmpFailedDirs>>

VARIABLES
    \* ---- the listing snapshot .alist.db and the ALIST stage of Config.Run (config.go)
    alMode,          \* cfg.RunMode, a bit mask
    alDaemon,        \* cfg.RunAsDaemon
    dbAge,           \* the file .alist.db: "absent", or its age: "fresh" | "stale"
                     \* (stale: modified more than 24 hours ago)
    dbRows,          \* the rows of .alist.db, as the set of their paths
    alRemote,        \* the paths a walk of the listing service collects
    alpc,            \* "ALIST" | "COMPARE" | "returned" | "failed": where Run is
    alHanded,        \* the variable alistFiles of Run
    alLog            \* history: the snapshot as the last execution of the stage
                     \* found it, and whether that execution called generateAlistDB

snapVars == <<alMode, alDaemon, dbAge, dbRows, alRemote, alpc, alHanded, alLog>>

VARIABLES
    \* ---- one call of AlistClient.ReadDir (alist.go)
    pgpc,            \* "ready" | "loop" | "returned" | "failed"
    pgI,             \* the loop variable i, the page to request next; MaxPages
                     \* stands for MaxPages and every larger number
    pgCount,         \* count
    pgTotal,         \* total
    pgFiles,         \* files, as the sequence of the names of its entries
    pgLast,          \* history: the page last requested and the answer to it
    pgResult         \* what ReadDir returned: its entries, or "error"

pageVars == <<pgpc, pgI, pgCount, pgTotal, pgFiles, pgLast, pgResult>>

alistVars == <<snapVars, pageVars>>

vars == <<mirrorVars, walkVars, syncVars, rewriteVars, indexVars, reconVars, runVars,
          compareVars, alistVars>>

\* What the actions of one component leave alone.
nonMirrorVars == <<alistVars, walkVars, syncVars, rewriteVars, indexVars, reconVars,
    runVars, compareVars>>
nonWalkVars == <<alistVars, mirrorVars, syncVars, rewriteVars, indexVars, reconVars,
    runVars, compareVars>>
nonSyncVars == <<alistVars, mirrorVars, walkVars, rewriteVars, indexVars, reconVars,
    runVars, compareVars>>
nonRewriteVars == <<alistVars, mirrorVars, walkVars, syncVars, indexVars, reconVars,
    runVars, compareVars>>
nonIndexVars == <<alistVars, mirrorVars, walkVars, syncVars, rewriteVars, reconVars,
    runVars, compareVars>>
\* The reconciliation runs the download engine as one step and changes its
\* index and its directory, nothing else of it.
nonReconVars == <<alistVars, mirrorVars, walkVars, rewriteVars, indexVars, runVars, compareVars, syncpc,
                  syncResult, running, finished, failed, failed2, retry, rounds,
                  decisions, commits, lastAttempt>>
nonRunVars == <<alistVars, mirrorVars, walkVars, syncVars, rewriteVars, indexVars, reconVars,
               compareVars>>
nonPageVars == <<snapVars, mirrorVars, walkVars, syncVars, rewriteVars, indexVars, reconVars,
                runVars, compareVars>>
nonAlistVars == <<pageVars, mirrorVars, walkVars, syncVars, rewriteVars, indexVars, reconVars,
                 runVars, compareVars>>
nonCompareVars == <<alistVars, mirrorVars, walkVars, syncVars, rewriteVars, indexVars, reconVars,
                   runVars>>

(***************************************************************************)
(* Bounds of the model.                                                    *)
(***************************************************************************)
NumMirrors == 2     \* size of the mirror pool mc.mirrors
MaxNodes == 3       \* files and directories of a remote tree, its root not counted
NumCPU == 2         \* runtime.NumCPU()
MaxLen == 3         \* characters of the remainder of a placeholder's URL
MaxRuns == 2        \* consecutive runs of the reconciliation
MaxStages == 8      \* stage executions of one orchestrator
MaxPages == 3       \* page numbers of ReadDir told apart: MaxPages is "that or more"
MaxContent == 2     \* entries in one page of the listing service's answer
MaxTotal == 3       \* the largest total the listing service reports

\* What one probe (validateMirror) may return: 0 for a failed probe, otherwise
\* the latency it measured.
ProbeResults == {0, 1, 2}

\* The callers of activeMirrors that may hold a list while a cycle runs.
Readers == {"caller"}

(***************************************************************************)
(* Program constants.                                                      *)
(***************************************************************************)
NumProbes == 5          \* for i := 0; i < 5; i++
MinProbes == 4          \* if len(dur) < 4 { continue }
ConstructAttempts == 3  \* for range 3 { mc.validateMirrors() }

(***************************************************************************)
(* Generic helpers.                                                        *)
(***************************************************************************)
RECURSIVE SumSeq(_)
SumSeq(s) == IF s = <<>> THEN 0 ELSE Head(s) + SumSeq(Tail(s))

Range(s) == {s[i] : i \in DOMAIN s}

\* All orderings of the elements of the sequence s.
Perms(s) ==
    LET n == Len(s)
        idx == {p \in [1..n -> 1..n] : \A i, j \in 1..n : i # j => p[i] # p[j]}
    IN {[i \in 1..n |-> s[p[i]]] : p \in idx}

None == <<0>>

(***************************************************************************)
(* Mirror selector.                                                        *)
(***************************************************************************)
Mirrors == [i \in 1..NumMirrors |-> i]      \* mc.mirrors: the pool, in configured order

\* validateMirrors, the probe loop of one mirror: dur collects the d > 0.
ProbeDurations(ds) == SelectSeq(ds, LAMBDA d : d > 0)

\* if len(dur) < 4 { continue }
QualifiesBad(dur) == Len(dur) >= MinProbes - 1
Qualifies(dur) == Len(dur) >= MinProbes

\* sum / time.Duration(len(dur)): integer division of int64 nanoseconds
MeanDuration(dur) == SumSeq(dur) \div Len(dur)

\* sort.Slice(mirrorsToSort, duration <): any ordering without an inversion
\* (sort.Slice is not stable, so ties may come out in either order).
SortByDuration(s) ==
    {t \in Perms(s) : \A i, j \in DOMAIN t : i < j => ~(t[j].duration < t[i].duration)}

MirrorNames(s) == [i \in DOMAIN s |-> s[i].mirror]

\* History of one mirror's probes, taken from the raw results: whether at least
\* four of the five returned a latency and, if so, the mean of those latencies.
ProbeSuccesses(ds) == Cardinality({i \in DOMAIN ds : ds[i] > 0})
ProbeRecord(m, ds) ==
    LET n == ProbeSuccesses(ds)
    IN [mirror |-> m,
        fourOfFive |-> (n >= 4),
        mean |-> IF n >= 4 THEN SumSeq([i \in DOMAIN ds |-> ds[i]]) \div n ELSE 0]

\* validateMirrors is entered: by NewMetadataCrawler (up to 3 times) or by the
\* ticker of MetadataCrawler.Run.
StartValidate ==
    /\ vpc \in {"idle", "published", "failed"}
    /\ \/ mcState = "constructing" /\ attempts < ConstructAttempts
          /\ vpc # "published"
          /\ attempts' = attempts + 1
          /\ UNCHANGED mcState
       \/ mcState = "running"
          /\ UNCHANGED <<attempts, mcState>>
    /\ vpc' = "probing"
    /\ vIdx' = 1
    /\ mirrorsToSort' = <<>>
    /\ probeStats' = <<>>
    /\ UNCHANGED <<validMirrors, lastCompleted, readerList, readerExpected>>
    /\ UNCHANGED nonMirrorVars

\* One iteration of "for _, mirror := range mc.mirrors": five probes, then the
\* mirror is dropped or appended to the local slice.  The shared list is not
\* touched.
ProbeMirrorLeaky ==
    /\ vpc = "probing"
    /\ vIdx <= Len(Mirrors)
    /\ \E ds \in [1..NumProbes -> ProbeResults] :
         LET dur == ProbeDurations(ds)
             next == IF Qualifies(dur)
                     THEN Append(mirrorsToSort,
                                 [mirror |-> Mirrors[vIdx], duration |-> MeanDuration(dur)])
                     ELSE mirrorsToSort
         IN /\ mirrorsToSort' = next
            /\ validMirrors' = MirrorNames(next)
            /\ probeStats' = Append(probeStats,
                                    ProbeRecord(Mirrors[vIdx], ds))
    /\ vIdx' = vIdx + 1
    /\ UNCHANGED <<mcState, attempts, vpc, lastCompleted, readerList, readerExpected>>
    /\ UNCHANGED nonMirrorVars

ProbeMirror ==
    /\ vpc = "probing"
    /\ vIdx <= Len(Mirrors)
    /\ \E ds \in [1..NumProbes -> ProbeResults] :
         LET dur == ProbeDurations(ds)
         IN /\ mirrorsToSort' =
                  IF Qualifies(dur)
                  THEN Append(mirrorsToSort,
                              [mirror |-> Mirrors[vIdx], duration |-> MeanDuration(dur)])
                  ELSE mirrorsToSort
            /\ probeStats' = Append(probeStats,
                                    ProbeRecord(Mirrors[vIdx], ds))
    /\ vIdx' = vIdx + 1
    /\ UNCHANGED <<mcState, attempts, vpc, validMirrors, lastCompleted,
                   readerList, readerExpected>>
    /\ UNCHANGED nonMirrorVars

\* The tail of validateMirrors: sort, build the list of names, fail when it is
\* empty, otherwise replace mc.validMirrors under mc.mux.
FinishValidateBad ==
    /\ vpc = "probing"
    /\ vIdx > Len(Mirrors)
    /\ \E sorted \in SortByDuration(mirrorsToSort) :
         LET mirrors == MirrorNames(sorted)
         IN /\ validMirrors' = mirrors
            /\ IF Len(mirrors) = 0
               THEN vpc' = "failed" /\ UNCHANGED lastCompleted
               ELSE vpc' = "published" /\ lastCompleted' = mirrors
    /\ vIdx' = 1
    /\ mirrorsToSort' = <<>>
    /\ UNCHANGED <<mcState, attempts, probeStats, readerList, readerExpected>>
    /\ UNCHANGED nonMirrorVars
FinishValidate ==
    /\ vpc = "probing"
    /\ vIdx > Len(Mirrors)
    /\ \E sorted \in SortByDuration(mirrorsToSort) :
         LET mirrors == MirrorNames(sorted)
         IN IF Len(mirrors) = 0
            THEN /\ vpc' = "failed"
                 /\ UNCHANGED <<validMirrors, lastCompleted>>
            ELSE /\ vpc' = "published"
                 /\ validMirrors' = mirrors
                 /\ lastCompleted' = mirrors
    /\ vIdx' = 1
    /\ mirrorsToSort' = <<>>
    /\ UNCHANGED <<mcState, attempts, probeStats, readerList, readerExpected>>
    /\ UNCHANGED nonMirrorVars

\* NewMetadataCrawler returns: with the crawler once a cycle succeeded, with
\* the error once three cycles failed.
ConstructorReturnsBad ==
    /\ mcState = "constructing"
    /\ \/ vpc = "published" /\ mcState' = "running"
       \/ vpc = "failed" /\ attempts = ConstructAttempts /\ mcState' = "running"
    /\ UNCHANGED <<attempts, vpc, vIdx, mirrorsToSort, validMirrors, probeStats,
                   lastCompleted, readerList, readerExpected>>
    /\ UNCHANGED nonMirrorVars
ConstructorReturns ==
    /\ mcState = "constructing"
    /\ \/ vpc = "published" /\ mcState' = "running"
       \/ vpc = "failed" /\ attempts = ConstructAttempts /\ mcState' = "failed"
    /\ UNCHANGED <<attempts, vpc, vIdx, mirrorsToSort, validMirrors, probeStats,
                   lastCompleted, readerList, readerExpected>>
    /\ UNCHANGED nonMirrorVars

\* activeMirrors, called by Stat, ReadDir or Download of a constructed crawler:
\* the shared list is read under mc.mux.
ActiveMirrors(r) ==
    /\ mcState = "running"
    /\ readerList[r] = None
    /\ readerList' = [readerList EXCEPT ![r] = validMirrors]
    /\ readerExpected' = [readerExpected EXCEPT ![r] = lastCompleted]
    /\ UNCHANGED <<mcState, attempts, vpc, vIdx, mirrorsToSort, validMirrors,
                   probeStats, lastCompleted>>
    /\ UNCHANGED nonMirrorVars

\* The caller has gone through the list it obtained and returns.
ReaderReturns(r) ==
    /\ readerList[r] # None
    /\ readerList' = [readerList EXCEPT ![r] = None]
    /\ readerExpected' = [readerExpected EXCEPT ![r] = None]
    /\ UNCHANGED <<mcState, attempts, vpc, vIdx, mirrorsToSort, validMirrors,
                   probeStats, lastCompleted>>
    /\ UNCHANGED nonMirrorVars

MirrorInit ==
    /\ mcState = "constructing"
    /\ attempts = 0
    /\ vpc = "idle"
    /\ vIdx = 1
    /\ mirrorsToSort = <<>>
    /\ validMirrors = <<>>
    /\ probeStats = <<>>
    /\ lastCompleted = <<>>
    /\ readerList = [r \in Readers |-> None]
    /\ readerExpected = [r \in Readers |-> None]

MirrorNext ==
    \/ StartValidate
    \/ ProbeMirror
    \/ FinishValidate
    \/ ConstructorReturns
    \/ \E r \in Readers : ActiveMirrors(r)
    \/ \E r \in Readers : ReaderReturns(r)

(***************************************************************************)
(* Claims about the mirror selector.                                       *)
(***************************************************************************)
ProbeRecordOf(m) == CHOOSE q \in Range(probeStats) : q.mirror = m

\* C8: after a successful validateMirrors cycle the ranked list holds exactly
\* the pool mirrors of which at least 4 of the 5 probes succeeded, each once,
\* in ascending order of the mean latency of their successful probes.
C8_RankedList ==
    vpc = "published" =>
        /\ Len(probeStats) = Len(Mirrors)
        /\ \A m \in Range(Mirrors) :
              (m \in Range(validMirrors)) <=> ProbeRecordOf(m).fourOfFive
        /\ Cardinality(Range(validMirrors)) = Len(validMirrors)
        /\ \A i, j \in DOMAIN validMirrors :
              i < j => ProbeRecordOf(validMirrors[i]).mean
                          <= ProbeRecordOf(validMirrors[j]).mean

\* A cycle has ranked the second mirror of the pool strictly before the first.
C8_Witness ==
    /\ vpc = "published"
    /\ validMirrors = <<Mirrors[2], Mirrors[1]>>
    /\ ProbeRecordOf(Mirrors[2]).mean < ProbeRecordOf(Mirrors[1]).mean

\* C10: every list a caller obtains from activeMirrors is the complete result
\* of one finished validation cycle, whatever the running cycle has built.
C10_AtomicReplace ==
    \A r \in Readers :
        readerList[r] # None =>
            readerList[r] = readerExpected[r]

\* A caller holds a list while a cycle is half-way through the pool and has
\* built a different partial list.
C10_Witness ==
    \E r \in Readers :
        /\ readerList[r] # None
        /\ vpc = "probing"
        /\ vIdx > 1
        /\ vIdx <= Len(Mirrors)
        /\ MirrorNames(mirrorsToSort) # readerList[r]

(***************************************************************************)
(* Names and paths.  A name is a string; NameBytes gives its bytes, which  *)
(* is what Go's < on strings and filepath.Ext look at.  A path is the      *)
(* sequence of its segments; <<>> is "/".                                  *)
(***************************************************************************)
NameBytes ==
    [n \in {"a", "ab", "b", "m.strm", "n.strm", "p.nfo", "q.nfo"} |->
        CASE n = "a"      -> <<97>>
          [] n = "ab"     -> <<97, 98>>
          [] n = "b"      -> <<98>>
          [] n = "m.strm" -> <<109, 46, 115, 116, 114, 109>>
          [] n = "n.strm" -> <<110, 46, 115, 116, 114, 109>>
          [] n = "p.nfo"  -> <<112, 46, 110, 102, 111>>
          [] n = "q.nfo"  -> <<113, 46, 110, 102, 111>>]

\* The names remote trees are built from.
WalkNames == {"a", "ab", "b"}

\* Go's s < t on strings: bytewise lexicographic.
RECURSIVE LexLess(_, _)
LexLess(s, t) ==
    IF t = <<>> THEN FALSE
    ELSE IF s = <<>> THEN TRUE
    ELSE IF Head(s) # Head(t) THEN Head(s) < Head(t)
    ELSE LexLess(Tail(s), Tail(t))

NameLess(a, b) == LexLess(NameBytes[a], NameBytes[b])

Root == <<>>
Join(path, name) == Append(path, name)                  \* filepath.Join(path, name)
Dir(path) == SubSeq(path, 1, Len(path) - 1)             \* filepath.Dir
Base(path) == path[Len(path)]                           \* filepath.Base
IsPrefix(p, q) == Len(p) <= Len(q) /\ SubSeq(q, 1, Len(p)) = p
IsDescendant(q, p) == IsPrefix(p, q) /\ q # p

\* The entries of directory p in tree t, as the server lists them.
IsChildOf(q, p) == Len(q) = Len(p) + 1 /\ Dir(q) = p
Children(t, p) == {n \in t : IsChildOf(n.path, p)}
Entry(n) == [name |-> Base(n.path), isdir |-> n.isdir]

\* Every tree of at most n nodes over the names in ns: a node hangs under the
\* root or under a directory of the tree, and a path names one node.
TreeExtensions(t, ns) ==
    {[path |-> Join(d, nm), isdir |-> k] :
        d \in {Root} \cup {x.path : x \in {y \in t : y.isdir}}, nm \in ns, k \in BOOLEAN}
RECURSIVE TreesUpTo(_, _)
TreesUpTo(n, ns) ==
    IF n = 0 THEN {{}}
    ELSE LET prev == TreesUpTo(n - 1, ns)
         IN prev \cup
            UNION {{t \cup {nd} : nd \in {x \in TreeExtensions(t, ns) :
                                            \A y \in t : y.path # x.path}} : t \in prev}

SetToSeqs(S) ==
    {f \in [1..Cardinality(S) -> S] : \A i, j \in 1..Cardinality(S) : i # j => f[i] # f[j]}


(***************************************************************************)
(* The download index and the download directory.  A row is the size, the  *)
(* modified time and the etag stored under a path; NoRow stands for "no    *)
(* row" and for the nil *MetadataFile.                                     *)
(***************************************************************************)
NoRow == [modified |-> -1, size |-> -1, etag |-> "none"]

RowOf(path) == IF path \in DOMAIN dlIndex THEN dlIndex[path] ELSE NoRow
FileOf(path) == IF path \in DOMAIN dlFiles THEN dlFiles[path] ELSE "absent"

\* pickFirstFile followed by os.Stat of the cache file: a row whose file is
\* missing counts as no row.
OldFileOf(path) ==
    IF RowOf(path) # NoRow /\ FileOf(path) = "absent" THEN NoRow ELSE RowOf(path)

(***************************************************************************)
(* Walk.  Both walkers have the same Walk and walk; they differ in Stat    *)
(* and ReadDir, which are requests to a server, and in the callback the    *)
(* caller passes.  Error values: "nil", "SkipDir", "SkipAll", "PathError"  *)
(* (a failed request) and "DBError" (a failed database call).              *)
(***************************************************************************)

\* sort.Slice(fileInfos, Name() <): any ordering without an inversion.
SortByNameBad(entries) == {entries}
SortByName(entries) ==
    {t \in Perms(entries) :
        \A i, j \in DOMAIN t : i < j => ~NameLess(t[j].name, t[i].name)}

\* The callback MetadataCrawler.Sync gives to Walk, up to the point where it
\* starts the download task: what it returns.
SyncVisitBad(path, isdir, err, dbFails) ==
    IF err # "nil" THEN err
    ELSE IF isdir THEN "nil"
    ELSE IF dbFails THEN "DBError" ELSE "nil"
SyncVisit(path, isdir, err, dbFails) ==
    IF err # "nil" THEN err
    ELSE IF isdir
         THEN IF path # Root /\ path[1] \notin selectedPaths THEN "SkipDir" ELSE "nil"
    ELSE IF dbFails THEN "DBError" ELSE "nil"

\* The callback generateAlistDB gives to Walk: what it returns.
AlistVisit(path, isdir, err, dbFails) ==
    IF err = "PathError" THEN "nil"
    ELSE IF err # "nil" THEN err
    ELSE IF isdir THEN "nil"
    ELSE IF dbFails THEN "DBError" ELSE "nil"

Visit(path, isdir, err, dbFails) ==
    IF walkVariant = "crawler" THEN SyncVisit(path, isdir, err, dbFails)
    ELSE AlistVisit(path, isdir, err, dbFails)

\* The callback's effect on what it collects: a download task is started, or
\* a row is inserted, for a file it accepted.
Collected(path, isdir, err, ret) ==
    IF err = "nil" /\ ~isdir /\ ret = "nil" THEN {path} ELSE {}

\* The task the callback of Sync starts for path: the goroutine's arguments,
\* and as history the row and the file that were there when it looked.
NewTask(path) ==
    [path |-> path, oldFile |-> OldFileOf(path),
     seenRow |-> RowOf(path), seenFile |-> FileOf(path)]

\* walk(child) has returned err to the child loop of the call on top of stk;
\* childIsDir says what the child was.  The loop goes on to the next child
\* when err is nil or is SkipDir for a directory; otherwise the call returns
\* err to its own caller, for which it is a directory.  With no call left,
\* Walk returns, turning SkipDir and SkipAll into nil.
RECURSIVE Unwind(_, _, _)
Unwind(stk, childIsDir, err) ==
    IF stk = <<>>
    THEN [stack |-> <<>>,
          result |-> IF err \in {"SkipDir", "SkipAll"} THEN "nil" ELSE err]
    ELSE IF err = "nil" \/ (childIsDir /\ err = "SkipDir")
    THEN [stack |-> [stk EXCEPT ![Len(stk)].idx = @ + 1], result |-> "none"]
    ELSE Unwind(SubSeq(stk, 1, Len(stk) - 1), TRUE, err)

AfterUnwind(u) ==
    /\ stack' = u.stack
    /\ walkResult' = u.result
    /\ wpc' = IF u.result = "none" THEN "walking" ELSE "returned"

\* walk(path, info, walkFn) for a directory, called with stk as the calls
\* below it: ReadDir, the callback, then either the return of err1 or the
\* sort and the child loop.
WalkDirBad(path, stk, dbFails) ==
    \E fails \in BOOLEAN :
    \E fileInfos \in SetToSeqs({Entry(n) : n \in Children(remoteTree, path)}) :
        LET err == IF fails THEN "PathError" ELSE "nil"
            err1 == Visit(path, TRUE, err, dbFails)
        IN /\ readDirLog' = Append(readDirLog, path)
           /\ visitLog' = Append(visitLog, [path |-> path, err |-> err, ret |-> err1])
           /\ IF err1 # "nil"
              THEN AfterUnwind(Unwind(stk, TRUE, err1))
              ELSE \E sorted \in SortByName(fileInfos) :
                      /\ stack' = Append(stk, [path |-> path, listed |-> fileInfos,
                                                entries |-> sorted, idx |-> 1])
                      /\ wpc' = "walking"
                      /\ walkResult' = "none"
           /\ UNCHANGED <<spawned, alistTx>>
WalkDir(path, stk, dbFails) ==
    \E fails \in BOOLEAN :
    \E fileInfos \in SetToSeqs({Entry(n) : n \in Children(remoteTree, path)}) :
        LET err == IF fails THEN "PathError" ELSE "nil"
            err1 == Visit(path, TRUE, err, dbFails)
        IN /\ readDirLog' = Append(readDirLog, path)
           /\ visitLog' = Append(visitLog, [path |-> path, err |-> err, ret |-> err1])
           /\ IF err # "nil" \/ err1 # "nil"
              THEN AfterUnwind(Unwind(stk, TRUE, err1))
              ELSE \E sorted \in SortByName(fileInfos) :
                      /\ stack' = Append(stk, [path |-> path, listed |-> fileInfos,
                                                entries |-> sorted, idx |-> 1])
                      /\ wpc' = "walking"
                      /\ walkResult' = "none"
           /\ UNCHANGED <<spawned, alistTx>>

\* walk(path, info, walkFn) for a file: the callback alone.
WalkFile(path, stk, dbFails) ==
    LET ret == Visit(path, FALSE, "nil", dbFails)
        got == Collected(path, FALSE, "nil", ret)
    IN /\ visitLog' = Append(visitLog, [path |-> path, err |-> "nil", ret |-> ret])
       /\ spawned' = IF walkVariant = "crawler"
                     THEN spawned \cup {NewTask(q) : q \in got} ELSE spawned
       /\ alistTx' = IF walkVariant = "alist" THEN alistTx \cup got ELSE alistTx
       /\ AfterUnwind(Unwind(stk, FALSE, ret))
       /\ UNCHANGED readDirLog

\* Walk(root, fn): Stat the root; on an error the callback gets it, otherwise
\* walk starts at the root, a directory.
WalkStartBad ==
    /\ wpc = "ready"
    /\ \/ /\ statErr' = "PathError"
          /\ AfterUnwind(Unwind(<<>>, TRUE, "nil"))
          /\ UNCHANGED <<visitLog, readDirLog, spawned, alistTx>>
       \/ /\ statErr' = "nil"
          /\ WalkDir(Root, <<>>, FALSE)
    /\ UNCHANGED <<walkVariant, selectedPaths, remoteTree, alistDB, genResult>>
    /\ UNCHANGED nonWalkVars
WalkStart ==
    /\ wpc = "ready"
    /\ \/ /\ statErr' = "PathError"
          /\ visitLog' = Append(visitLog,
                                [path |-> Root, err |-> "PathError",
                                 ret |-> Visit(Root, TRUE, "PathError", FALSE)])
          /\ AfterUnwind(Unwind(<<>>, TRUE, Visit(Root, TRUE, "PathError", FALSE)))
          /\ UNCHANGED <<readDirLog, spawned, alistTx>>
       \/ /\ statErr' = "nil"
          /\ WalkDir(Root, <<>>, FALSE)
    /\ UNCHANGED <<walkVariant, selectedPaths, remoteTree, alistDB, genResult>>
    /\ UNCHANGED nonWalkVars

\* One iteration of the child loop of the innermost call: walk(child).
WalkChild ==
    /\ wpc = "walking"
    /\ LET f == stack[Len(stack)]
       IN /\ f.idx <= Len(f.entries)
          /\ LET c == f.entries[f.idx]
                 path == Join(f.path, c.name)
             IN IF c.isdir
                THEN WalkDir(path, stack, FALSE)
                ELSE \E dbFails \in BOOLEAN : WalkFile(path, stack, dbFails)
    /\ UNCHANGED <<walkVariant, selectedPaths, remoteTree, statErr, alistDB, genResult>>
    /\ UNCHANGED nonWalkVars

\* The child loop of the innermost call is over: it returns nil.
WalkLoopEnds ==
    /\ wpc = "walking"
    /\ LET f == stack[Len(stack)]
       IN /\ f.idx > Len(f.entries)
          /\ AfterUnwind(Unwind(SubSeq(stack, 1, Len(stack) - 1), TRUE, "nil"))
    /\ UNCHANGED <<walkVariant, selectedPaths, remoteTree, visitLog, readDirLog,
                   spawned, alistTx, statErr, alistDB, genResult>>
    /\ UNCHANGED nonWalkVars

\* generateAlistDB after Walk has returned: the error of Walk is returned and
\* the deferred Rollback drops the inserts; otherwise tx.Commit() is returned.
GenerateAlistDBReturns ==
    /\ walkVariant = "alist"
    /\ wpc = "returned"
    /\ genResult = "none"
    /\ IF walkResult # "nil"
       THEN /\ genResult' = walkResult
            /\ UNCHANGED alistDB
       ELSE \E commitFails \in BOOLEAN :
               IF commitFails
               THEN genResult' = "DBError" /\ UNCHANGED alistDB
               ELSE genResult' = "nil" /\ alistDB' = alistTx
    /\ UNCHANGED <<walkVariant, selectedPaths, remoteTree, wpc, stack, walkResult,
                   visitLog, readDirLog, spawned, alistTx, statErr>>
    /\ UNCHANGED nonWalkVars

(***************************************************************************)
(* MetadataCrawler.Sync: the tasks the walk starts, the retry rounds.      *)
(***************************************************************************)

\* The file a mirror serves, as download reads it from the response headers.
RemoteMeta == [modified |-> 2, size |-> 1, etag |-> "A"]

\* The rows the download index may hold for a path when Sync starts.
OldRows == [modified : {1, 2, 3}, size : {1, 2}, etag : {"A", "B"}]

\* The tree the download engine is run on, and its allow-list.
SyncTree ==
    {[path |-> <<"a">>, isdir |-> TRUE],
     [path |-> <<"a", "m.strm">>, isdir |-> FALSE],
     [path |-> <<"a", "p.nfo">>, isdir |-> FALSE],
     [path |-> <<"b">>, isdir |-> TRUE]}
SyncPaths == {n.path : n \in {x \in SyncTree : ~x.isdir}}

\* defaultWorkers() on a machine of cpus CPUs, and the capacity of workerChan.
defaultWorkers(cpus) == IF cpus > 8 THEN 8 ELSE cpus
DefaultWorkers == defaultWorkers(NumCPU)

\* The bound of the retry counter in "if retry > 5".
MaxRetry == 5

\* The predicate Sync passes to Download.
ShouldDownloadBad(oldFile, newFile) ==
    \/ oldFile = NoRow
    \/ /\ newFile.modified - oldFile.modified >= 0
       /\ (newFile.size # oldFile.size \/ newFile.etag # oldFile.etag)
ShouldDownload(oldFile, newFile) ==
    \/ oldFile = NoRow
    \/ /\ newFile.modified - oldFile.modified > 0
       /\ (newFile.size # oldFile.size \/ newFile.etag # oldFile.etag)

\* How one call of download may end: the request fails, the answer is an html
\* page, or the answer is a file and, when the predicate accepts it, MkdirAll,
\* os.Create, io.Copy or updateToDB fails, or all of them succeed.
Outcomes == {"httpFail", "html", "createFail", "copyFail", "dbFail", "ok"}

\* download(tx, path, mirror, filterFn) ending as o, with st the row and the
\* file of path before it.
DownloadOneBad(o, oldFile, st) ==
    IF o = "httpFail"
    THEN [err |-> TRUE, row |-> st.row, file |-> st.file, decided |-> "none", committed |-> FALSE]
    ELSE IF o = "html"
    THEN [err |-> FALSE, row |-> st.row, file |-> st.file, decided |-> "none", committed |-> FALSE]
    ELSE IF ~ShouldDownload(oldFile, RemoteMeta)
    THEN [err |-> FALSE, row |-> st.row, file |-> st.file, decided |-> "false", committed |-> FALSE]
    ELSE IF o = "createFail"
    THEN [err |-> TRUE, row |-> st.row, file |-> st.file, decided |-> "true",
          committed |-> FALSE]
    ELSE IF o = "copyFail"
    THEN [err |-> TRUE, row |-> st.row, file |-> "partial", decided |-> "true",
          committed |-> FALSE]
    ELSE IF o = "dbFail"
    THEN [err |-> TRUE, row |-> RemoteMeta, file |-> "new", decided |-> "true",
          committed |-> FALSE]
    ELSE [err |-> FALSE, row |-> RemoteMeta, file |-> "new", decided |-> "true",
          committed |-> TRUE]
DownloadOne(o, oldFile, st) ==
    IF o = "httpFail"
    THEN [err |-> TRUE, row |-> st.row, file |-> st.file, decided |-> "none", committed |-> FALSE]
    ELSE IF o = "html"
    THEN [err |-> FALSE, row |-> st.row, file |-> st.file, decided |-> "none", committed |-> FALSE]
    ELSE IF ~ShouldDownload(oldFile, RemoteMeta)
    THEN [err |-> FALSE, row |-> st.row, file |-> st.file, decided |-> "false", committed |-> FALSE]
    ELSE IF o = "createFail"
    THEN [err |-> TRUE, row |-> st.row, file |-> st.file, decided |-> "true",
          committed |-> FALSE]
    ELSE IF o = "copyFail"
    THEN [err |-> TRUE, row |-> st.row, file |-> "partial", decided |-> "true",
          committed |-> FALSE]
    ELSE IF o = "dbFail"
    THEN [err |-> TRUE, row |-> st.row, file |-> "new", decided |-> "true",
          committed |-> FALSE]
    ELSE [err |-> FALSE, row |-> RemoteMeta, file |-> "new", decided |-> "true",
          committed |-> TRUE]

\* Download(tx, path, filterFn): the mirrors in order, the next one after an
\* error unless it was the last; outs[i] is how the call on mirror i ends.
\* Every way that loop may end from mirror i on, over the ways each call of
\* download may end.
\* tried is the list of the mirrors contacted so far.
RECURSIVE DownloadLoopBad(_, _, _, _, _, _)
DownloadLoopBad(i, n, oldFile, st, decided, tried) ==
    UNION {LET r == DownloadOne(o, oldFile, st)
               d == IF r.decided = "none" THEN decided ELSE r.decided
               t == Append(tried, [mirror |-> validMirrors[i], err |-> r.err])
           IN IF i < n
              THEN DownloadLoopBad(i + 1, n, oldFile, [row |-> r.row, file |-> r.file], d, t)
              ELSE {[err |-> r.err, row |-> r.row, file |-> r.file, decided |-> d,
                     committed |-> r.committed, tried |-> t]}
           : o \in Outcomes}
RECURSIVE DownloadLoop(_, _, _, _, _, _)
DownloadLoop(i, n, oldFile, st, decided, tried) ==
    UNION {LET r == DownloadOne(o, oldFile, st)
               d == IF r.decided = "none" THEN decided ELSE r.decided
               t == Append(tried, [mirror |-> validMirrors[i], err |-> r.err])
           IN IF r.err /\ i < n
              THEN DownloadLoop(i + 1, n, oldFile, [row |-> r.row, file |-> r.file], d, t)
              ELSE {[err |-> r.err, row |-> r.row, file |-> r.file, decided |-> d,
                     committed |-> r.committed, tried |-> t]}
           : o \in Outcomes}

Download(path, oldFile) ==
    LET st == [row |-> RowOf(path), file |-> FileOf(path)]
    IN IF Len(validMirrors) = 0
       THEN {[err |-> FALSE, row |-> st.row, file |-> st.file, decided |-> "none",
              committed |-> FALSE, tried |-> <<>>]}
       ELSE DownloadLoop(1, Len(validMirrors), oldFile, st, "none", <<>>)

\* The tasks of a batch, with the retry rounds running every task anew.
CurrentBatchBad ==
    {[path |-> t.path, info |-> t.oldFile] : t \in spawned}

\* No task has been run for the path.
NoAttempt == [began |-> FALSE, tried |-> <<>>, err |-> FALSE]

\* The tasks of the batch that is running: those the walk started, or one
\* for each entry of failed.
CurrentBatch ==
    IF syncpc = "walk"
    THEN {[path |-> t.path, info |-> t.oldFile] : t \in spawned}
    ELSE failed

\* "workerChan <- struct{}{}": a task takes a slot when one is free.
TaskAcquireBad(e) ==
    /\ syncpc \in {"walk", "retry"}
    /\ e \in CurrentBatch \ (running \cup finished)
    /\ running' = running \cup {e}
    /\ UNCHANGED <<dlIndex, dlFiles, syncpc, syncResult, finished, failed, failed2,
                   retry, rounds, decisions, commits, lastAttempt>>
    /\ UNCHANGED nonSyncVars
TaskAcquire(e) ==
    /\ syncpc \in {"walk", "retry"}
    /\ e \in CurrentBatch \ (running \cup finished)
    /\ Cardinality(running) < DefaultWorkers
    /\ running' = running \cup {e}
    /\ UNCHANGED <<dlIndex, dlFiles, syncpc, syncResult, finished, failed, failed2,
                   retry, rounds, decisions, commits, lastAttempt>>
    /\ UNCHANGED nonSyncVars

\* The rest of the goroutine: db.Begin, Download, the entry appended to
\* failed (to failed2 in a retry round) on an error, the slot given back.
TaskRun(e) ==
    /\ e \in running
    /\ \E began \in BOOLEAN :
       \E r \in IF began THEN Download(e.path, e.info)
                ELSE {[err |-> TRUE, row |-> RowOf(e.path), file |-> FileOf(e.path),
                       decided |-> "none", committed |-> FALSE, tried |-> <<>>]} :
             /\ lastAttempt' = [lastAttempt EXCEPT ![e.path] =
                                   [began |-> began, tried |-> r.tried, err |-> r.err]]
             /\ dlIndex' = [dlIndex EXCEPT ![e.path] = r.row]
             /\ dlFiles' = [dlFiles EXCEPT ![e.path] = r.file]
             /\ decisions' = IF r.decided = "none" THEN decisions
                             ELSE [decisions EXCEPT ![e.path] = r.decided]
             /\ commits' = IF r.committed THEN [commits EXCEPT ![e.path] = @ + 1]
                           ELSE commits
             /\ IF syncpc = "walk"
                THEN /\ failed' = IF r.err THEN failed \cup {e} ELSE failed
                     /\ UNCHANGED failed2
                ELSE /\ failed2' = IF r.err THEN failed2 \cup {e} ELSE failed2
                     /\ UNCHANGED failed
    /\ running' = running \ {e}
    /\ finished' = finished \cup {e}
    /\ UNCHANGED <<syncpc, syncResult, retry, rounds>>
    /\ UNCHANGED nonSyncVars

\* Walk returned an error: wg.Wait(), then Sync returns it.
SyncWalkFailedBad ==
    /\ syncpc = "walk"
    /\ wpc = "returned"
    /\ walkResult # "nil"
    /\ syncpc' = "returned"
    /\ syncResult' = walkResult
    /\ UNCHANGED <<dlIndex, dlFiles, running, finished, failed, failed2, retry,
                   rounds, decisions, commits, lastAttempt>>
    /\ UNCHANGED nonSyncVars
SyncWalkFailed ==
    /\ syncpc = "walk"
    /\ wpc = "returned"
    /\ walkResult # "nil"
    /\ CurrentBatch \subseteq finished
    /\ syncpc' = "returned"
    /\ syncResult' = walkResult
    /\ UNCHANGED <<dlIndex, dlFiles, running, finished, failed, failed2, retry,
                   rounds, decisions, commits, lastAttempt>>
    /\ UNCHANGED nonSyncVars

\* Walk returned nil: wg.Wait(), then the first pass of the loop at FINAL
\* starts a task for every entry of failed.
SyncWalkDone ==
    /\ syncpc = "walk"
    /\ wpc = "returned"
    /\ walkResult = "nil"
    /\ CurrentBatch \subseteq finished
    /\ syncpc' = "retry"
    /\ finished' = {}
    /\ rounds' = IF failed # {} THEN rounds + 1 ELSE rounds
    /\ UNCHANGED <<dlIndex, dlFiles, syncResult, running, failed, failed2, retry,
                   decisions, commits, lastAttempt>>
    /\ UNCHANGED nonSyncVars

\* wg.Wait() after a batch round, and what follows it: return nil, return the
\* error, or copy failed2 to failed, count and go to FINAL.
SyncRoundEndsBad ==
    /\ syncpc = "retry"
    /\ failed \subseteq finished
    /\ IF Cardinality(failed2) > 1
       THEN IF retry > MaxRetry
            THEN /\ syncpc' = "returned"
                 /\ syncResult' = "maximum retry attempts exceeded"
                 /\ UNCHANGED <<failed, failed2, retry, rounds, finished>>
            ELSE /\ failed' = failed2
                 /\ failed2' = {}
                 /\ retry' = retry + 1
                 /\ rounds' = rounds + 1
                 /\ finished' = {}
                 /\ UNCHANGED <<syncpc, syncResult>>
       ELSE /\ syncpc' = "returned"
            /\ syncResult' = "nil"
            /\ UNCHANGED <<failed, failed2, retry, rounds, finished>>
    /\ UNCHANGED <<dlIndex, dlFiles, running, decisions, commits, lastAttempt>>
    /\ UNCHANGED nonSyncVars
SyncRoundEnds ==
    /\ syncpc = "retry"
    /\ failed \subseteq finished
    /\ IF Cardinality(failed2) > 0
       THEN IF retry > MaxRetry
            THEN /\ syncpc' = "returned"
                 /\ syncResult' = "maximum retry attempts exceeded"
                 /\ UNCHANGED <<failed, failed2, retry, rounds, finished>>
            ELSE /\ failed' = failed2
                 /\ failed2' = {}
                 /\ retry' = retry + 1
                 /\ rounds' = rounds + 1
                 /\ finished' = {}
                 /\ UNCHANGED <<syncpc, syncResult>>
       ELSE /\ syncpc' = "returned"
            /\ syncResult' = "nil"
            /\ UNCHANGED <<failed, failed2, retry, rounds, finished>>
    /\ UNCHANGED <<dlIndex, dlFiles, running, decisions, commits, lastAttempt>>
    /\ UNCHANGED nonSyncVars

\* Sync is called on a download directory some earlier run left: the first
\* file with any row or none, its cache file there or missing, the second
\* file never downloaded or up to date.
SyncInit ==
    /\ walkVariant = "crawler"
    /\ remoteTree = SyncTree
    /\ selectedPaths = {"a"}
    /\ wpc = "ready"
    /\ stack = <<>>
    /\ walkResult = "none"
    /\ visitLog = <<>>
    /\ readDirLog = <<>>
    /\ spawned = {}
    /\ alistTx = {}
    /\ statErr = "none"
    /\ alistDB = {}
    /\ genResult = "none"
    /\ \E r1 \in OldRows \cup {NoRow}, f1 \in {"absent", "old"}, upToDate \in BOOLEAN :
         /\ dlIndex = (<<"a", "m.strm">> :> r1) @@
                      (<<"a", "p.nfo">> :> IF upToDate THEN RemoteMeta ELSE NoRow)
         /\ dlFiles = (<<"a", "m.strm">> :> f1) @@
                      (<<"a", "p.nfo">> :> IF upToDate THEN "old" ELSE "absent")
    /\ syncpc = "walk"
    /\ syncResult = "none"
    /\ running = {}
    /\ finished = {}
    /\ failed = {}
    /\ failed2 = {}
    /\ retry = 0
    /\ rounds = 0
    /\ decisions = [p \in SyncPaths |-> "none"]
    /\ commits = [p \in SyncPaths |-> 0]
    /\ lastAttempt = [p \in SyncPaths |-> NoAttempt]

\* Sync is called on an empty download directory, for a tree with more files
\* than workerChan has slots.
PoolTree == SyncTree \cup {[path |-> <<"a", "q.nfo">>, isdir |-> FALSE]}
PoolPaths == {n.path : n \in {x \in PoolTree : ~x.isdir}}
PoolInit ==
    /\ walkVariant = "crawler"
    /\ remoteTree = PoolTree
    /\ selectedPaths = {"a"}
    /\ wpc = "ready"
    /\ stack = <<>>
    /\ walkResult = "none"
    /\ visitLog = <<>>
    /\ readDirLog = <<>>
    /\ spawned = {}
    /\ alistTx = {}
    /\ statErr = "none"
    /\ alistDB = {}
    /\ genResult = "none"
    /\ dlIndex = [p \in PoolPaths |-> NoRow]
    /\ dlFiles = [p \in PoolPaths |-> "absent"]
    /\ syncpc = "walk"
    /\ syncResult = "none"
    /\ running = {}
    /\ finished = {}
    /\ failed = {}
    /\ failed2 = {}
    /\ retry = 0
    /\ rounds = 0
    /\ decisions = [p \in PoolPaths |-> "none"]
    /\ commits = [p \in PoolPaths |-> 0]
    /\ lastAttempt = [p \in PoolPaths |-> NoAttempt]

\* The download engine when a specification does not run it.
SyncIdle ==
    /\ dlIndex = <<>>
    /\ dlFiles = <<>>
    /\ syncpc = "returned"
    /\ syncResult = "nil"
    /\ running = {}
    /\ finished = {}
    /\ failed = {}
    /\ failed2 = {}
    /\ retry = 0
    /\ rounds = 0
    /\ decisions = <<>>
    /\ commits = <<>>
    /\ lastAttempt = <<>>

SyncNext ==
    \/ WalkStart
    \/ WalkChild
    \/ WalkLoopEnds
    \/ \E e \in CurrentBatch : TaskAcquire(e)
    \/ \E e \in running : TaskRun(e)
    \/ SyncWalkFailed
    \/ SyncWalkDone
    \/ SyncRoundEnds

(***************************************************************************)
(* Strings are sequences of bytes.  The string functions of Go that the    *)
(* placeholder rewrite uses, and the parts of net/url it goes through.     *)
(***************************************************************************)
HasPrefix(s, prefix) == Len(s) >= Len(prefix) /\ SubSeq(s, 1, Len(prefix)) = prefix
TrimPrefix(s, prefix) ==
    IF HasPrefix(s, prefix) THEN SubSeq(s, Len(prefix) + 1, Len(s)) ELSE s

\* bytes.TrimSpace, for ASCII white space.
IsSpace(c) == c \in {9, 10, 11, 12, 13, 32}
RECURSIVE TrimLeftSpace(_)
TrimLeftSpace(s) ==
    IF s # <<>> /\ IsSpace(Head(s)) THEN TrimLeftSpace(Tail(s)) ELSE s
RECURSIVE TrimRightSpace(_)
TrimRightSpace(s) ==
    IF s # <<>> /\ IsSpace(s[Len(s)]) THEN TrimRightSpace(SubSeq(s, 1, Len(s) - 1)) ELSE s
TrimSpace(s) == TrimRightSpace(TrimLeftSpace(s))

RECURSIVE ReplaceAll(_, _, _)
ReplaceAll(s, old, new) ==
    IF s = <<>> THEN <<>>
    ELSE IF HasPrefix(s, old)
    THEN new \o ReplaceAll(SubSeq(s, Len(old) + 1, Len(s)), old, new)
    ELSE <<Head(s)>> \o ReplaceAll(Tail(s), old, new)

\* strings.IndexByte, counted from 1; 0 when c is not in s.
IndexByte(s, c) ==
    IF \E i \in DOMAIN s : s[i] = c
    THEN CHOOSE i \in DOMAIN s : s[i] = c /\ \A j \in 1..(i - 1) : s[j] # c
    ELSE 0

\* net/url shouldEscape(c, encodePath): letters, digits, - _ . ~ and
\* $ & + , / : ; = @ stay; every other byte, ? included, is escaped.
ShouldEscape(c) ==
    /\ c \notin (97..122) \cup (65..90) \cup (48..57)
    /\ c \notin {45, 95, 46, 126}
    /\ c \notin {36, 38, 43, 44, 47, 58, 59, 61, 64}

\* "0123456789ABCDEF"[n]
UpperHex(n) == IF n < 10 THEN 48 + n ELSE 55 + n

\* net/url escape(s, encodePath)
EscapeBad(s) == s
RECURSIVE Escape(_)
Escape(s) ==
    IF s = <<>> THEN <<>>
    ELSE (IF ShouldEscape(Head(s))
          THEN <<37, UpperHex(Head(s) \div 16), UpperHex(Head(s) % 16)>>
          ELSE <<Head(s)>>) \o Escape(Tail(s))

IsHex(c) == c \in (48..57) \cup (97..102) \cup (65..70)
UnHex(c) == IF c \in 48..57 THEN c - 48 ELSE IF c \in 97..102 THEN c - 87 ELSE c - 55

\* net/url unescape(s, encodePath): its first pass, which fails on a % that
\* is not followed by two hex digits, and its second, which decodes.
ValidEscapes(s) ==
    \A i \in DOMAIN s :
        s[i] = 37 => i + 2 <= Len(s) /\ IsHex(s[i + 1]) /\ IsHex(s[i + 2])
RECURSIVE Unescape(_)
Unescape(s) ==
    IF s = <<>> THEN <<>>
    ELSE IF Head(s) = 37
    THEN <<16 * UnHex(s[2]) + UnHex(s[3])>> \o Unescape(SubSeq(s, 4, Len(s)))
    ELSE <<Head(s)>> \o Unescape(Tail(s))

\* net/url validEncoded(s, encodePath)
ValidEncoded(s) ==
    \A i \in DOMAIN s :
        \/ s[i] \in {33, 36, 38, 39, 40, 41, 42, 43, 44, 59, 61, 58, 64, 91, 93, 37}
        \/ ~ShouldEscape(s[i])

\* stringContainsCTLByte
ContainsCTLByte(s) == \E i \in DOMAIN s : s[i] < 32 \/ s[i] = 127

\* In url.parse: the query is cut off at the first ?; a lone ? at the end
\* sets ForceQuery.
CutQuery(rest) ==
    LET i == IndexByte(rest, 63)
    IN IF i = 0 THEN [rest |-> rest, RawQuery |-> <<>>, ForceQuery |-> FALSE]
       ELSE IF i = Len(rest)
       THEN [rest |-> SubSeq(rest, 1, i - 1), RawQuery |-> <<>>, ForceQuery |-> TRUE]
       ELSE [rest |-> SubSeq(rest, 1, i - 1), RawQuery |-> SubSeq(rest, i + 1, Len(rest)),
             ForceQuery |-> FALSE]

\* URL.setPath
SetPath(raw) ==
    LET path == Unescape(raw)
    IN [Path |-> path, RawPath |-> IF Escape(path) = raw THEN <<>> ELSE raw]

NoURL ==
    [ok |-> FALSE, Scheme |-> <<>>, Host |-> <<>>, Path |-> <<>>, RawPath |-> <<>>,
     RawQuery |-> <<>>, ForceQuery |-> FALSE]

\* url.ParseRequestURI(raw) for a raw that starts with /: no scheme, no
\* authority, the query cut off, the path unescaped.
ParseRequestURI(raw) ==
    LET q == CutQuery(raw)
    IN IF ContainsCTLByte(raw) \/ raw = <<>> \/ ~ValidEscapes(q.rest) THEN NoURL
       ELSE [ok |-> TRUE, Scheme |-> <<>>, Host |-> <<>>,
             Path |-> SetPath(q.rest).Path, RawPath |-> SetPath(q.rest).RawPath,
             RawQuery |-> q.RawQuery, ForceQuery |-> q.ForceQuery]

\* url.Parse(raw) for a raw of the form scheme://authority/path?query without
\* user information and without a fragment: the scheme up to the colon, the
\* query cut off, the authority up to the next /, the path unescaped.
Parse(raw) ==
    LET colon == IndexByte(raw, 58)
        q == CutQuery(SubSeq(raw, colon + 1, Len(raw)))
        afterSlashes == SubSeq(q.rest, 3, Len(q.rest))
        slash == IndexByte(afterSlashes, 47)
        authority == IF slash = 0 THEN afterSlashes ELSE SubSeq(afterSlashes, 1, slash - 1)
        rawpath == IF slash = 0 THEN <<>> ELSE SubSeq(afterSlashes, slash, Len(afterSlashes))
    IN IF ContainsCTLByte(raw) \/ ~ValidEscapes(rawpath) THEN NoURL
       ELSE [ok |-> TRUE, Scheme |-> SubSeq(raw, 1, colon - 1), Host |-> authority,
             Path |-> SetPath(rawpath).Path, RawPath |-> SetPath(rawpath).RawPath,
             RawQuery |-> q.RawQuery, ForceQuery |-> q.ForceQuery]

\* URL.EscapedPath
EscapedPath(u) ==
    IF /\ u.RawPath # <<>>
       /\ ValidEncoded(u.RawPath)
       /\ ValidEscapes(u.RawPath)
       /\ Unescape(u.RawPath) = u.Path
    THEN u.RawPath
    ELSE IF u.Path = <<42>> THEN <<42>>
    ELSE Escape(u.Path)

\* URL.String for a URL with a scheme and a host, without user information,
\* opaque part and fragment.
URLString(u) ==
    u.Scheme \o <<58, 47, 47>> \o u.Host
      \o (IF EscapedPath(u) # <<>> /\ Head(EscapedPath(u)) # 47 /\ u.Host # <<>>
          THEN <<47>> ELSE <<>>)
      \o EscapedPath(u)
      \o (IF u.ForceQuery \/ u.RawQuery # <<>> THEN <<63>> \o u.RawQuery ELSE <<>>)

(***************************************************************************)
(* The placeholder rewrite of syncMetadata.                                *)
(***************************************************************************)
\* "http://xiaoya.host:5678"
defaultAlistEndpoint ==
    <<104, 116, 116, 112, 58, 47, 47, 120, 105, 97, 111, 121, 97, 46, 104, 111, 115, 116,
      58, 53, 54, 55, 56>>
\* "/d"
defaultAlistStrmRootPath == <<47, 100>>
\* cfg.AlistURL after Validate: "http://my.host/"
AlistURL == <<104, 116, 116, 112, 58, 47, 47, 109, 121, 46, 104, 111, 115, 116, 47>>
\* The values of cfg.AlistStrmRootPath: "/z" and the default "/d".
RootPaths == {<<47, 122>>, <<47, 100>>}

\* The characters a remainder is made of: / x ( space ? % e-acute, and the
\* escapes %20 and %41.
RemainderChars ==
    {<<47>>, <<120>>, <<40>>, <<32>>, <<63>>, <<37>>, <<195, 169>>,
     <<37, 50, 48>>, <<37, 52, 49>>}

RECURSIVE Flatten(_)
Flatten(ss) == IF ss = <<>> THEN <<>> ELSE Head(ss) \o Flatten(Tail(ss))

Remainders ==
    UNION {{Flatten(cs) : cs \in [1..n -> RemainderChars]} : n \in 0..MaxLen}

\* relUrl as it is first computed from a path: the source root cut off.
StripRoot(path) ==
    <<47>> \o TrimPrefix(TrimPrefix(<<47>> \o TrimPrefix(path, <<47>>),
                                    defaultAlistStrmRootPath), <<47>>)

\* relUrl with the configured root put in front.
RelUrl(path, root) ==
    <<47>> \o TrimPrefix(root, <<47>>) \o <<47>> \o TrimPrefix(StripRoot(path), <<47>>)

\* metadata.go: the string written for a placeholder with content p.
RewriteLive(p, root) ==
    LET s == ReplaceAll(TrimSpace(p), <<37, 50, 48>>, <<32>>)
        o == Parse(AlistURL)
        relpath == <<47>> \o TrimPrefix(TrimPrefix(s, defaultAlistEndpoint), <<47>>)
        relUrl == RelUrl(relpath, root)
        u == ParseRequestURI(relUrl)
        uu == [ok |-> TRUE, Scheme |-> o.Scheme, Host |-> o.Host,
               Path |-> IF u.ok THEN u.Path ELSE relUrl, RawPath |-> <<>>,
               RawQuery |-> <<>>, ForceQuery |-> FALSE]
    IN IF HasPrefix(s, defaultAlistEndpoint)
       THEN [panic |-> FALSE, bytes |-> URLString(uu) \o <<10>>]
       ELSE [panic |-> FALSE, bytes |-> s \o <<10>>]

\* config.go: the same, where the whole content is parsed first and u is nil
\* after a parse error.
RewriteCached(p, root) ==
    LET s0 == ReplaceAll(TrimSpace(p), <<37, 50, 48>>, <<32>>)
        o == Parse(AlistURL)
        u == Parse(s0)
        s == IF u.ok THEN URLString(u) ELSE s0
        uu == [u EXCEPT !.Scheme = o.Scheme, !.Host = o.Host,
                        !.Path = RelUrl(u.Path, root)]
    IN IF HasPrefix(s, defaultAlistEndpoint)
       THEN IF u.ok THEN [panic |-> FALSE, bytes |-> URLString(uu) \o <<10>>]
            ELSE [panic |-> TRUE, bytes |-> <<>>]
       ELSE [panic |-> FALSE, bytes |-> s \o <<10>>]

\* One pass of "for strm := range strmList": the placeholder is read,
\* rewritten and written to the served path.
RewriteStrm ==
    /\ rwpc = "ready"
    /\ LET r == IF rwVariant = "live" THEN RewriteLive(rwContent, rwRoot)
                ELSE RewriteCached(rwContent, rwRoot)
       IN /\ rwpc' = IF r.panic THEN "panic" ELSE "written"
          /\ rwWritten' = r.bytes
    /\ UNCHANGED <<rwVariant, rwRoot, rwRemainder, rwContent>>
    /\ UNCHANGED nonRewriteVars

RewriteInit ==
    /\ rwVariant \in {"live", "cached"}
    /\ rwRoot \in RootPaths
    /\ rwRemainder \in Remainders
    /\ rwContent = defaultAlistEndpoint \o defaultAlistStrmRootPath \o rwRemainder
    /\ rwWritten = <<>>
    /\ rwpc = "ready"

\* The rewrite when a specification does not run it.
RewriteIdle ==
    /\ rwVariant = "live"
    /\ rwRoot = defaultAlistStrmRootPath
    /\ rwRemainder = <<>>
    /\ rwContent = <<>>
    /\ rwWritten = <<>>
    /\ rwpc = "written"

RewriteNext == RewriteStrm

(***************************************************************************)
(* The file index: createFileTable's five columns, updateToDB,             *)
(* pickFirstFile, listFiles and the INSERT of generateAlistDB.             *)
(***************************************************************************)
IndexPaths == {"/a/m.strm", "/b"}

\* The MetadataFile values handed to updateToDB.
FileRecords ==
    [path : IndexPaths, name : {"m.strm", "b"}, size : {0, 7}, modified : {0, 5},
     etag : {"", "W/1"}, isdir : BOOLEAN]

\* What the walker hands to the callback of generateAlistDB for a file.
AlistInfos == [size : {0, 7}, modified : {0, 5}, isdir : {FALSE}]

NoIndexRow == [name |-> "", size |-> -1, modified |-> -1, etag |-> ""]
NoRecord ==
    [path |-> "", name |-> "", size |-> -1, modified |-> -1, etag |-> "", isdir |-> FALSE]

\* INSERT OR REPLACE INTO files VALUES (path, name, size, modified, etag):
\* the row stored under file.Path().
ToRowBad(file) ==
    [name |-> file.name, size |-> file.size, modified |-> file.modified, etag |-> ""]
ToRow(file) ==
    [name |-> file.name, size |-> file.size, modified |-> file.modified,
     etag |-> file.etag]

\* rows.Scan(&f.path, &f.name, &f.size, &f.modified, &f.etag) into a new
\* MetadataFile: isdir keeps its zero value.
ScanRow(path, row) ==
    [path |-> path, name |-> row.name, size |-> row.size, modified |-> row.modified,
     etag |-> row.etag, isdir |-> FALSE]

\* filepath.Base of an index path.
IndexBase(path) == IF path = "/a/m.strm" THEN "m.strm" ELSE "b"

\* A bool bound to the fifth column, which is TEXT: it is stored as 0 or 1
\* and read back as that text.
BoolAsText(b) == IF b THEN "1" ELSE "0"

\* updateToDB(tx, file): the upsert and the commit, or an error and no change.
UpdateToDB ==
    /\ \E file \in FileRecords, fails \in BOOLEAN :
          IF fails
          THEN UNCHANGED <<idxRows, idxWritten>>
          ELSE /\ idxRows' = [idxRows EXCEPT ![file.path] = ToRow(file)]
               /\ idxWritten' = [idxWritten EXCEPT ![file.path] = file]
    /\ idxRead' = {}
    /\ UNCHANGED nonIndexVars

\* The callback of generateAlistDB for a file: its own INSERT, with
\* info.IsDir() as the fifth value.
AlistInsert ==
    /\ \E path \in IndexPaths, info \in AlistInfos :
          /\ idxRows' = [idxRows EXCEPT ![path] =
                            [name |-> IndexBase(path), size |-> info.size,
                             modified |-> info.modified, etag |-> BoolAsText(info.isdir)]]
          /\ idxWritten' = [idxWritten EXCEPT ![path] = NoRecord]
    /\ idxRead' = {}
    /\ UNCHANGED nonIndexVars

\* pickFirstFile(db, path): the record of the row, nil when there is none.
PickFirstFile ==
    /\ \E path \in IndexPaths :
          idxRead' = IF idxRows[path] = NoIndexRow THEN {}
                     ELSE {ScanRow(path, idxRows[path])}
    /\ UNCHANGED <<idxRows, idxWritten>>
    /\ UNCHANGED nonIndexVars

\* listFiles(db): the records of all rows.
ListFiles ==
    /\ idxRead' = {ScanRow(path, idxRows[path]) :
                      path \in {q \in IndexPaths : idxRows[q] # NoIndexRow}}
    /\ UNCHANGED <<idxRows, idxWritten>>
    /\ UNCHANGED nonIndexVars

\* createFileTable on a new database: no rows.
IndexInit ==
    /\ idxRows = [path \in IndexPaths |-> NoIndexRow]
    /\ idxWritten = [path \in IndexPaths |-> NoRecord]
    /\ idxRead = {}

\* The index component when a specification does not look at it.
IndexIdle == IndexInit

IndexNext ==
    \/ UpdateToDB
    \/ AlistInsert
    \/ PickFirstFile
    \/ ListFiles

(***************************************************************************)
(* The reconciliation of the live-listing variant (metadata.go): the       *)
(* stages of Config.Run, each as one step, run MaxRuns times in a row.     *)
(***************************************************************************)
\* The files the metadata mirrors serve, all under an allow-listed directory.
RemoteFiles == {<<"a", "m.strm">>, <<"a", "n.strm">>, <<"a", "p.nfo">>}
\* A file an earlier run published and the mirrors no longer serve.
OrphanFile == <<"a", "q.nfo">>
ReconPaths == RemoteFiles \cup {OrphanFile}

\* cfg.AlistStrmRootPath in these runs: "/z"
AlistStrmRootPath == <<47, 122>>

\* What the mirrors serve as the content of a file: placeholders for the
\* targets /x and /y, and some bytes for the other file.
RemoteContent(path) ==
    IF path = <<"a", "m.strm">> THEN defaultAlistEndpoint \o <<47, 100, 47, 120>>
    ELSE IF path = <<"a", "n.strm">> THEN defaultAlistEndpoint \o <<47, 100, 47, 121>>
    ELSE <<110, 101, 119>>
\* What they served before: m.strm pointed to /y.
OldContent(path) ==
    IF path = <<"a", "m.strm">> THEN defaultAlistEndpoint \o <<47, 100, 47, 121>>
    ELSE IF path = <<"a", "n.strm">> THEN defaultAlistEndpoint \o <<47, 100, 47, 121>>
    ELSE <<111, 108, 100>>
\* The row of a file downloaded before the mirrors changed it.
OutdatedRow == [modified |-> 1, size |-> 2, etag |-> "B"]
\* Served rows that are as new as the file of the mirrors with another size
\* and etag, and older with the same size and etag.
SameTimeRow == [modified |-> 2, size |-> 2, etag |-> "B"]
SameDataRow == [modified |-> 1, size |-> 1, etag |-> "A"]
\* The targets the listing service may have.
ListingTargets == {<<47, 120>>, <<47, 121>>}

\* The bytes of the cache file of path.
CacheBytes(path) ==
    IF dlFiles[path] = "new" THEN RemoteContent(path)
    ELSE IF dlFiles[path] = "old" THEN OldContent(path)
    ELSE <<>>

NoFile == <<-1>>

\* filepath.Ext(name) = ".strm"
Ext(name) ==
    LET b == NameBytes[name]
        dots == {i \in DOMAIN b : b[i] = 46}
    IN IF dots = {} THEN <<>>
       ELSE SubSeq(b, CHOOSE i \in dots : \A j \in dots : j <= i, Len(b))
IsStrm(path) == Ext(Base(path)) = <<46, 115, 116, 114, 109>>

\* filepath.Dir and filepath.Base of a clean absolute path given as bytes.
LastSlash(t) == CHOOSE i \in DOMAIN t : t[i] = 47 /\ \A j \in DOMAIN t : t[j] = 47 => j <= i
BytesDir(t) == IF LastSlash(t) = 1 THEN <<47>> ELSE SubSeq(t, 1, LastSlash(t) - 1)
BytesBase(t) == SubSeq(t, LastSlash(t) + 1, Len(t))

\* alistClient.ReadDir(dir): the names of the entries of dir.
ReadDirNames(dir) == {BytesBase(t) : t \in {q \in alistFiles : BytesDir(q) = dir}}

\* compareMetadata, for the content of a placeholder: whether it starts with
\* the source endpoint, and the path it then embeds.
EmbeddedTarget(content) ==
    LET s == ReplaceAll(TrimSpace(content), <<37, 50, 48>>, <<32>>)
        relpath == <<47>> \o TrimPrefix(TrimPrefix(s, defaultAlistEndpoint), <<47>>)
        relUrl == StripRoot(relpath)
        u == ParseRequestURI(relUrl)
    IN [has |-> HasPrefix(s, defaultAlistEndpoint),
        path |-> IF u.ok THEN u.Path ELSE relUrl]

\* The rows of an index, as listFiles returns their paths.
IndexedPaths(index) == {path \in DOMAIN index : index[path] # NoRow}

EmptyLog == [cacheWrites |-> {}, dlRows |-> {}, svRows |-> {}, servedWrites |-> {},
             copies |-> {}, syncFault |-> "none"]

\* downloadMetadata: a crawler is built, Sync walks the mirrors' tree and
\* downloads every file its predicate accepts, LocalFiles lists the index.
\* download returns nil without writing anything when the answer is an html
\* page.  On an error some of the files have been downloaded.
ReconDownload ==
    /\ reconpc = "download"
    /\ LET wanted == {path \in RemoteFiles \ htmlAnswers :
                         ShouldDownload(OldFileOf(path), RemoteMeta)}
       IN \E ok \in BOOLEAN, done \in SUBSET wanted :
             /\ ok => done = wanted
             /\ dlIndex' = [path \in DOMAIN dlIndex |->
                               IF path \in done THEN RemoteMeta ELSE dlIndex[path]]
             /\ dlFiles' = [path \in DOMAIN dlFiles |->
                               IF path \in done THEN "new" ELSE dlFiles[path]]
             /\ runLog' = [runLog EXCEPT !.cacheWrites = done, !.dlRows = done]
             /\ reconpc' = IF ok THEN "compare" ELSE "failed"
    /\ UNCHANGED <<purge, alistFiles, servedIndex, servedFiles, run, filesToPreserve,
                   filesNeedUpdate, faulted, candidates, servedBefore, htmlAnswers>>
    /\ UNCHANGED nonReconVars

\* compareMetadata(files).  A placeholder whose cache file is missing is not
\* scanned.  alistToScan keeps one placeholder for each target.  With purge,
\* a placeholder kept there is skipped when ReadDir of the target's directory
\* fails or does not list the target.
ReconCompare ==
    /\ reconpc = "compare"
    /\ LET files == IndexedPaths(dlIndex)
           scanned == {path \in files :
                          /\ IsStrm(path)
                          /\ dlFiles[path] # "absent"
                          /\ EmbeddedTarget(CacheBytes(path)).has}
           TargetOf(path) == EmbeddedTarget(CacheBytes(path)).path
           targets == {TargetOf(path) : path \in scanned}
       IN \E ok \in BOOLEAN :
          \E alistToScan \in {f \in [targets -> scanned] : \A t \in targets : TargetOf(f[t]) = t} :
          \E failedDirs \in SUBSET {BytesDir(t) : t \in targets} :
             LET absent == {t \in targets :
                               \/ BytesDir(t) \in failedDirs
                               \/ BytesBase(t) \notin ReadDirNames(BytesDir(t))}
                 strmToSkip == IF purge THEN {alistToScan[t] : t \in absent} ELSE {}
             IN /\ ~purge => failedDirs = {}
                /\ IF ok
                   THEN /\ filesToPreserve' = files \ strmToSkip
                        /\ reconpc' = "prepare"
                        /\ faulted' = (faulted \/ failedDirs # {})
                   ELSE /\ failedDirs = {}
                        /\ reconpc' = "failed"
                        /\ UNCHANGED <<filesToPreserve, faulted>>
                /\ candidates' = {path \in scanned :
                                     /\ servedFiles[path] # NoFile
                                     /\ TargetOf(path) \notin alistFiles}
    /\ UNCHANGED <<purge, alistFiles, servedIndex, servedFiles, run, filesNeedUpdate, runLog,
                   servedBefore, htmlAnswers>>
    /\ UNCHANGED <<dlIndex, dlFiles>>
    /\ UNCHANGED nonReconVars

\* The test of prepareMetadataUpdate for a preserved path with a download row.
NeedsUpdateBad(path) == TRUE
NeedsUpdateNotOlder(path) ==
    \/ IsStrm(path)
    \/ servedIndex[path] = NoRow
    \/ /\ dlIndex[path].modified - servedIndex[path].modified >= 0
       /\ \/ dlIndex[path].size # servedIndex[path].size
          \/ dlIndex[path].etag # servedIndex[path].etag
NeedsUpdate(path) ==
    \/ IsStrm(path)
    \/ servedIndex[path] = NoRow
    \/ /\ dlIndex[path].modified - servedIndex[path].modified > 0
       /\ \/ dlIndex[path].size # servedIndex[path].size
          \/ dlIndex[path].etag # servedIndex[path].etag

\* prepareMetadataUpdate(filesToPreserve).  For a served row that is not
\* preserved, deleteFile removes the file named by the row's path, which is
\* a path outside the served directory, and deletes the row; its error is
\* ignored, so the row may stay.  The served directory (cfg.MediaDir, by
\* default /media) is not touched.
ReconPrepare ==
    /\ reconpc = "prepare"
    /\ LET toDelete == IndexedPaths(servedIndex) \ filesToPreserve
       IN \E ok \in BOOLEAN, deleted \in SUBSET toDelete :
             /\ servedIndex' = [path \in DOMAIN servedIndex |->
                                   IF path \in deleted THEN NoRow ELSE servedIndex[path]]
             /\ runLog' = [runLog EXCEPT !.svRows = deleted]
             /\ IF ok
                THEN /\ filesNeedUpdate' =
                            {path \in filesToPreserve :
                                dlIndex[path] # NoRow /\ NeedsUpdate(path)}
                     /\ reconpc' = "sync"
                     /\ faulted' = (faulted \/ deleted # toDelete)
                ELSE /\ reconpc' = "failed"
                     /\ UNCHANGED <<filesNeedUpdate, faulted>>
    /\ servedBefore' = [index |-> servedIndex, files |-> servedFiles]
    /\ UNCHANGED <<purge, alistFiles, servedFiles, run, filesToPreserve, candidates,
                   htmlAnswers>>
    /\ UNCHANGED <<dlIndex, dlFiles>>
    /\ UNCHANGED nonReconVars

\* syncMetadata(filesToUpdate): every placeholder is read from the cache,
\* rewritten and written to the served directory; every other file is copied
\* and its row upserted in the served index.  It fails when a call to the
\* file system or the database fails (fault), and when a cache file cannot
\* be read; on an error some of the files have been written, and the copy
\* that failed may have left its target empty (os.Create succeeded) or whole
\* (Exec or Commit failed), its row being rolled back.
ReconSyncBad ==
    /\ reconpc = "sync"
    /\ LET readable == {path \in filesNeedUpdate : dlFiles[path] # "absent"}
           strmList == {path \in filesNeedUpdate : IsStrm(path)}
           otherList == filesNeedUpdate \ strmList
       IN \E fault \in BOOLEAN :
          \E doneStrm \in SUBSET (strmList \cap readable) :
          \E doneOther \in SUBSET (otherList \cap readable) :
          \E truncated \in SUBSET (otherList \ doneOther) :
          \E uncommitted \in SUBSET ((otherList \cap readable) \ (doneOther \cup truncated)) :
             LET ok == ~fault /\ filesNeedUpdate \subseteq readable
                 written == [path \in DOMAIN servedFiles |->
                                IF path \in doneStrm
                                THEN RewriteLive(CacheBytes(path), AlistStrmRootPath).bytes
                                ELSE IF path \in doneOther \cup uncommitted
                                THEN CacheBytes(path)
                                ELSE IF path \in truncated THEN <<>>
                                ELSE servedFiles[path]]
                 log == [runLog EXCEPT
                            !.servedWrites =
                                {[path |-> q, changed |-> written[q] # servedFiles[q]] :
                                    q \in doneStrm \cup doneOther \cup truncated
                                              \cup uncommitted},
                            !.svRows = @ \cup doneOther,
                            !.copies = doneOther,
                            !.syncFault = IF fault THEN "fault" ELSE "nofault"]
             IN /\ ok => /\ doneStrm = strmList
                         /\ doneOther = otherList
                /\ Cardinality(truncated \cup uncommitted) <= (IF ok THEN 0 ELSE 1)
                /\ servedFiles' = written
                /\ servedIndex' = [path \in DOMAIN servedIndex |->
                                      IF path \in doneOther \cup truncated \cup uncommitted
                                      THEN dlIndex[path]
                                      ELSE servedIndex[path]]
                /\ IF ~ok
                   THEN /\ reconpc' = "failed"
                        /\ runLog' = log
                        /\ UNCHANGED run
                   ELSE IF run < MaxRuns
                   THEN /\ reconpc' = "download"
                        /\ run' = run + 1
                        /\ runLog' = EmptyLog
                   ELSE /\ reconpc' = "done"
                        /\ runLog' = log
                        /\ UNCHANGED run
    /\ UNCHANGED <<purge, alistFiles, filesToPreserve, filesNeedUpdate, faulted, candidates,
                   servedBefore, htmlAnswers>>
    /\ UNCHANGED <<dlIndex, dlFiles>>
    /\ UNCHANGED nonReconVars

ReconSync ==
    /\ reconpc = "sync"
    /\ LET readable == {path \in filesNeedUpdate : dlFiles[path] # "absent"}
           strmList == {path \in filesNeedUpdate : IsStrm(path)}
           otherList == filesNeedUpdate \ strmList
       IN \E fault \in BOOLEAN :
          \E doneStrm \in SUBSET (strmList \cap readable) :
          \E doneOther \in SUBSET (otherList \cap readable) :
          \E truncated \in SUBSET (otherList \ doneOther) :
          \E uncommitted \in SUBSET ((otherList \cap readable) \ (doneOther \cup truncated)) :
             LET ok == ~fault /\ filesNeedUpdate \subseteq readable
                 written == [path \in DOMAIN servedFiles |->
                                IF path \in doneStrm
                                THEN RewriteLive(CacheBytes(path), AlistStrmRootPath).bytes
                                ELSE IF path \in doneOther \cup uncommitted
                                THEN CacheBytes(path)
                                ELSE IF path \in truncated THEN <<>>
                                ELSE servedFiles[path]]
                 log == [runLog EXCEPT
                            !.servedWrites =
                                {[path |-> q, changed |-> written[q] # servedFiles[q]] :
                                    q \in doneStrm \cup doneOther \cup truncated
                                              \cup uncommitted},
                            !.svRows = @ \cup doneOther,
                            !.copies = doneOther,
                            !.syncFault = IF fault THEN "fault" ELSE "nofault"]
             IN /\ ok => /\ doneStrm = strmList
                         /\ doneOther = otherList
                /\ Cardinality(truncated \cup uncommitted) <= (IF ok THEN 0 ELSE 1)
                /\ servedFiles' = written
                /\ servedIndex' = [path \in DOMAIN servedIndex |->
                                      IF path \in doneOther THEN dlIndex[path]
                                      ELSE servedIndex[path]]
                /\ IF ~ok
                   THEN /\ reconpc' = "failed"
                        /\ runLog' = log
                        /\ UNCHANGED run
                   ELSE IF run < MaxRuns
                   THEN /\ reconpc' = "download"
                        /\ run' = run + 1
                        /\ runLog' = EmptyLog
                   ELSE /\ reconpc' = "done"
                        /\ runLog' = log
                        /\ UNCHANGED run
    /\ UNCHANGED <<purge, alistFiles, filesToPreserve, filesNeedUpdate, faulted, candidates,
                   servedBefore, htmlAnswers>>
    /\ UNCHANGED <<dlIndex, dlFiles>>
    /\ UNCHANGED nonReconVars

\* The first run starts on what earlier runs left: a file is cached or not,
\* m.strm and p.nfo possibly in an older version, m.strm possibly with its
\* row and without its cache file, the mirrors then answering for it with
\* an html page; a placeholder is served or
\* not; p.nfo and the orphan are served, with their rows, or not, p.nfo with
\* an older row, the current one, or one that differs in part.  The served
\* index holds rows of regular files only: no code path inserts one for a
\* placeholder.
ReconInit ==
    /\ purge \in BOOLEAN
    /\ alistFiles \in SUBSET ListingTargets
    /\ \E cm \in {"none", "old", "new", "lost"}, cn \in {"none", "new"},
          cp \in {"none", "old", "new"} :
         LET Row(c) == IF c = "none" THEN NoRow
                       ELSE IF c \in {"old", "lost"} THEN OutdatedRow
                       ELSE RemoteMeta
             File(c) == IF c \in {"none", "lost"} THEN "absent" ELSE c
         IN /\ htmlAnswers = IF cm = "lost" THEN {<<"a", "m.strm">>} ELSE {}
            /\ dlIndex = [path \in ReconPaths |->
                             IF path = <<"a", "m.strm">> THEN Row(cm)
                             ELSE IF path = <<"a", "n.strm">> THEN Row(cn)
                             ELSE IF path = <<"a", "p.nfo">> THEN Row(cp)
                             ELSE NoRow]
            /\ dlFiles = [path \in ReconPaths |->
                             IF path = <<"a", "m.strm">> THEN File(cm)
                             ELSE IF path = <<"a", "n.strm">> THEN File(cn)
                             ELSE IF path = <<"a", "p.nfo">> THEN File(cp)
                             ELSE "absent"]
    /\ \E sm \in BOOLEAN, sn \in BOOLEAN, sq \in BOOLEAN,
          sp \in {"none", "old", "new", "sameTime", "sameData"} :
         /\ servedFiles = [path \in ReconPaths |->
                             IF path = <<"a", "m.strm">>
                             THEN (IF sm THEN RewriteLive(RemoteContent(path),
                                                          AlistStrmRootPath).bytes
                                   ELSE NoFile)
                             ELSE IF path = <<"a", "n.strm">>
                             THEN (IF sn THEN RewriteLive(RemoteContent(path),
                                                          AlistStrmRootPath).bytes
                                   ELSE NoFile)
                             ELSE IF path = <<"a", "p.nfo">>
                             THEN (IF sp = "none" THEN NoFile
                                   ELSE IF sp \in {"old", "sameTime"} THEN OldContent(path)
                                   ELSE RemoteContent(path))
                             ELSE (IF sq THEN OldContent(path) ELSE NoFile)]
         /\ servedIndex = [path \in ReconPaths |->
                             IF path = <<"a", "p.nfo">>
                             THEN (IF sp = "none" THEN NoRow
                                   ELSE IF sp = "old" THEN OutdatedRow
                                   ELSE IF sp = "sameTime" THEN SameTimeRow
                                   ELSE IF sp = "sameData" THEN SameDataRow
                                   ELSE RemoteMeta)
                             ELSE IF path = OrphanFile
                             THEN (IF sq THEN OutdatedRow ELSE NoRow)
                             ELSE NoRow]
    /\ reconpc = "download"
    /\ run = 1
    /\ filesToPreserve = {}
    /\ filesNeedUpdate = {}
    /\ runLog = EmptyLog
    /\ faulted = FALSE
    /\ candidates = {}
    /\ servedBefore = <<>>
    /\ syncpc = "returned"
    /\ syncResult = "nil"
    /\ running = {}
    /\ finished = {}
    /\ failed = {}
    /\ failed2 = {}
    /\ retry = 0
    /\ rounds = 0
    /\ decisions = <<>>
    /\ commits = <<>>
    /\ lastAttempt = <<>>

\* The reconciliation when a specification does not run it.
ReconIdle ==
    /\ purge = TRUE
    /\ alistFiles = {}
    /\ servedIndex = <<>>
    /\ servedFiles = <<>>
    /\ reconpc = "done"
    /\ run = 1
    /\ filesToPreserve = {}
    /\ filesNeedUpdate = {}
    /\ runLog = EmptyLog
    /\ faulted = FALSE
    /\ candidates = {}
    /\ servedBefore = <<>>
    /\ htmlAnswers = {}

ReconNext ==
    \/ ReconDownload
    \/ ReconCompare
    \/ ReconPrepare
    \/ ReconSync

(***************************************************************************)
(* The orchestrator: Config.Run in its two variants, and the command that  *)
(* starts it and waits for its status.  What a stage does is in the        *)
(* reconciliation above; here a stage succeeds or fails.                   *)
(***************************************************************************)
Variants == {"live", "cached"}
RunModes == 0 .. 7

\* mode & bit = bit, for a bit of the mask
HasBit(mode, bit) == (mode \div bit) % 2 = 1

\* The status Run sends when a stage fails in one-shot mode.
StageStatusBad(stage) ==
    IF stage = "METADATA" THEN 2
    ELSE IF stage = "ALIST" THEN 3
    ELSE IF stage = "COMPARE" THEN 126
    ELSE IF stage = "PREPARE" THEN 126
    ELSE 128
StageStatus(stage) ==
    IF stage = "METADATA" THEN 2
    ELSE IF stage = "ALIST" THEN 3
    ELSE IF stage = "COMPARE" THEN 126
    ELSE IF stage = "PREPARE" THEN 127
    ELSE 128

Send(ch, val) == [ch |-> ch, val |-> val]
SendStatus(status, e) == <<Send("ecode", status), Send("err", e)>>

\* "if cfg.RunMode&1 != 1": Run sends 0 and nil and returns.
SyncBitUnset ==
    /\ pending' = SendStatus(0, "nil")
    /\ opc' = "send"

\* Where Run is after a stage that succeeded.
AfterStageBad(stage) ==
    IF stage = "METADATA"
    THEN IF orchVariant = "cached" THEN opc' = "ALIST" /\ UNCHANGED pending
         ELSE IF ~HasBit(RunMode, 1) THEN SyncBitUnset
         ELSE opc' = "COMPARE" /\ UNCHANGED pending
    ELSE IF stage = "ALIST"
    THEN IF ~HasBit(RunMode, 1) THEN SyncBitUnset
         ELSE opc' = "PREPARE" /\ UNCHANGED pending
    ELSE IF stage = "COMPARE" THEN opc' = "PREPARE" /\ UNCHANGED pending
    ELSE IF stage = "PREPARE" THEN opc' = "SYNC" /\ UNCHANGED pending
    ELSE IF stage = "SYNC"
    THEN IF RunAsDaemon THEN opc' = "WAIT" /\ UNCHANGED pending
         ELSE pending' = SendStatus(0, "nil") /\ opc' = "send"
    ELSE opc' = "METADATA" /\ UNCHANGED pending
AfterStage(stage) ==
    IF stage = "METADATA"
    THEN IF orchVariant = "cached" THEN opc' = "ALIST" /\ UNCHANGED pending
         ELSE IF ~HasBit(RunMode, 1) THEN SyncBitUnset
         ELSE opc' = "COMPARE" /\ UNCHANGED pending
    ELSE IF stage = "ALIST"
    THEN IF ~HasBit(RunMode, 1) THEN SyncBitUnset
         ELSE opc' = "COMPARE" /\ UNCHANGED pending
    ELSE IF stage = "COMPARE" THEN opc' = "PREPARE" /\ UNCHANGED pending
    ELSE IF stage = "PREPARE" THEN opc' = "SYNC" /\ UNCHANGED pending
    ELSE IF stage = "SYNC"
    THEN IF RunAsDaemon THEN opc' = "WAIT" /\ UNCHANGED pending
         ELSE pending' = SendStatus(0, "nil") /\ opc' = "send"
    ELSE opc' = "METADATA" /\ UNCHANGED pending

\* Where Run is after a stage that failed: in daemon mode it sleeps and goes
\* to the label of the stage; otherwise it sends the status and the error
\* and returns, except after SYNC, where the return is missing and the sends
\* of 0 and nil follow.
StageFailsBad(stage) ==
    IF RunAsDaemon
    THEN opc' = "METADATA" /\ UNCHANGED pending
    ELSE /\ pending' = IF stage = "SYNC"
                       THEN SendStatus(StageStatus(stage), "err") \o SendStatus(0, "nil")
                       ELSE SendStatus(StageStatus(stage), "err")
         /\ opc' = "send"
StageFails(stage) ==
    IF RunAsDaemon
    THEN opc' = stage /\ UNCHANGED pending
    ELSE /\ pending' = IF stage = "SYNC"
                       THEN SendStatus(StageStatus(stage), "err") \o SendStatus(0, "nil")
                       ELSE SendStatus(StageStatus(stage), "err")
         /\ opc' = "send"

\* One execution of a stage, the process still running.
ExecuteStage(stage, how) ==
    /\ mainpc \in {"recvEcode", "recvErr"}
    /\ Len(stageLog) < MaxStages
    /\ \E ok \in BOOLEAN :
          /\ stageLog' = Append(stageLog, [stage |-> stage, how |-> how, ok |-> ok])
          /\ IF ok THEN AfterStage(stage) ELSE StageFails(stage)
    /\ UNCHANGED <<orchVariant, RunMode, RunAsDaemon, ecodeCh, errCh, mainpc, mainEcode,
                   mainErr, exitCode>>
    /\ UNCHANGED nonRunVars

\* METADATA: downloadMetadata, or with bit 4 unset LocalFiles of the cache.
StageMetadata ==
    /\ opc = "METADATA"
    /\ ExecuteStage("METADATA", IF HasBit(RunMode, 4) THEN "download" ELSE "cache")

\* ALIST, in config.go only: getAllAlistFilesOnDemand, or with bit 2 unset
\* listAlistFilesFromCache.
StageAlist ==
    /\ opc = "ALIST"
    /\ ExecuteStage("ALIST", IF HasBit(RunMode, 2) THEN "crawl" ELSE "cache")

\* COMPARE: compareMetadata.
StageCompare ==
    /\ opc = "COMPARE"
    /\ ExecuteStage("COMPARE", "compareMetadata")

\* PREPARE: prepareMetadataUpdate.
StagePrepare ==
    /\ opc = "PREPARE"
    /\ ExecuteStage("PREPARE", "prepareMetadataUpdate")

\* SYNC: syncMetadata.
StageSync ==
    /\ opc = "SYNC"
    /\ ExecuteStage("SYNC", "syncMetadata")

\* The sleep until the next run and "goto METADATA", in daemon mode.
StageWait ==
    /\ opc = "WAIT"
    /\ mainpc \in {"recvEcode", "recvErr"}
    /\ Len(stageLog) < MaxStages
    /\ stageLog' = Append(stageLog, [stage |-> "WAIT", how |-> "sleep", ok |-> TRUE])
    /\ AfterStage("WAIT")
    /\ UNCHANGED <<orchVariant, RunMode, RunAsDaemon, ecodeCh, errCh, mainpc, mainEcode,
                   mainErr, exitCode>>
    /\ UNCHANGED nonRunVars

\* "ecodeCh <- v" or "errCh <- v": the next send of Run, when the channel
\* has room; after the last one Run returns.
RunSend ==
    /\ opc = "send"
    /\ mainpc \in {"recvEcode", "recvErr"}
    /\ LET m == Head(pending)
       IN /\ IF m.ch = "ecode"
             THEN /\ Len(ecodeCh) < 1
                  /\ ecodeCh' = Append(ecodeCh, m.val)
                  /\ UNCHANGED errCh
             ELSE /\ Len(errCh) < 1
                  /\ errCh' = Append(errCh, m.val)
                  /\ UNCHANGED ecodeCh
          /\ pending' = Tail(pending)
          /\ opc' = IF Tail(pending) = <<>> THEN "returned" ELSE "send"
    /\ UNCHANGED <<orchVariant, RunMode, RunAsDaemon, mainpc, mainEcode, mainErr, exitCode,
                   stageLog>>
    /\ UNCHANGED nonRunVars

\* The command: "<-ecodeCh".
MainRecvEcode ==
    /\ mainpc = "recvEcode"
    /\ ecodeCh # <<>>
    /\ mainEcode' = Head(ecodeCh)
    /\ ecodeCh' = Tail(ecodeCh)
    /\ mainpc' = "recvErr"
    /\ UNCHANGED <<orchVariant, RunMode, RunAsDaemon, opc, pending, errCh, mainErr, exitCode,
                   stageLog>>
    /\ UNCHANGED nonRunVars

\* The command: "<-errCh", then os.Exit(ecode) when the error is not nil, and
\* the return otherwise.
MainRecvErr ==
    /\ mainpc = "recvErr"
    /\ errCh # <<>>
    /\ mainErr' = Head(errCh)
    /\ errCh' = Tail(errCh)
    /\ IF Head(errCh) # "nil"
       THEN mainpc' = "exited" /\ exitCode' = mainEcode
       ELSE mainpc' = "returned" /\ exitCode' = 0
    /\ UNCHANGED <<orchVariant, RunMode, RunAsDaemon, opc, pending, ecodeCh, mainEcode,
                   stageLog>>
    /\ UNCHANGED nonRunVars

RunInit ==
    /\ orchVariant \in Variants
    /\ RunMode \in RunModes
    /\ RunAsDaemon \in BOOLEAN
    /\ opc = "METADATA"
    /\ pending = <<>>
    /\ ecodeCh = <<>>
    /\ errCh = <<>>
    /\ mainpc = "recvEcode"
    /\ mainEcode = -1
    /\ mainErr = "none"
    /\ exitCode = -1
    /\ stageLog = <<>>

\* The orchestrator when a specification does not run it.
RunIdle ==
    /\ orchVariant = "live"
    /\ RunMode = 7
    /\ RunAsDaemon = FALSE
    /\ opc = "returned"
    /\ pending = <<>>
    /\ ecodeCh = <<>>
    /\ errCh = <<>>
    /\ mainpc = "returned"
    /\ mainEcode = -1
    /\ mainErr = "none"
    /\ exitCode = -1
    /\ stageLog = <<>>

RunNext ==
    \/ StageMetadata
    \/ StageAlist
    \/ StageCompare
    \/ StagePrepare
    \/ StageSync
    \/ StageWait
    \/ RunSend
    \/ MainRecvEcode
    \/ MainRecvErr

(***************************************************************************)
(* AlistClient.ReadDir (alist.go): the paginated listing of one directory. *)
(***************************************************************************)
\* The names the entries of a page may have, and the contents of a page:
\* r.Data.Content of a successful answer.
EntryNames == {"x", "y"}
PageContents == UNION {[1..n -> EntryNames] : n \in 0..MaxContent}

NoPage == [page |-> 0, content |-> <<>>, total |-> 0]

\* "count, total := 0, 1" and "i := 1".
ReadDirStart ==
    /\ pgpc = "ready"
    /\ pgpc' = "loop"
    /\ pgI' = 1
    /\ pgCount' = 0
    /\ pgTotal' = 1
    /\ pgFiles' = <<>>
    /\ UNCHANGED <<pgLast, pgResult>>
    /\ UNCHANGED nonPageVars

\* One iteration, entered with count < total: c.list(path, i, 64) fails and
\* ReadDir returns the error, or it answers with a page and a total, both
\* of the server's choosing; the entries are appended and i is incremented.
ReadDirPage ==
    /\ pgpc = "loop"
    /\ pgCount < pgTotal
    /\ \/ /\ pgpc' = "failed"
          /\ pgResult' = "error"
          /\ UNCHANGED <<pgI, pgCount, pgTotal, pgFiles, pgLast>>
       \/ \E content \in PageContents, total \in 0..MaxTotal :
             /\ pgCount' = pgCount + Len(content)
             /\ pgTotal' = total
             /\ pgFiles' = pgFiles \o content
             /\ pgLast' = [page |-> pgI, content |-> content, total |-> total]
             /\ pgI' = IF pgI < MaxPages THEN pgI + 1 ELSE MaxPages
             /\ UNCHANGED <<pgpc, pgResult>>
    /\ UNCHANGED nonPageVars

\* The loop condition fails: "return files, nil".
ReadDirReturns ==
    /\ pgpc = "loop"
    /\ pgCount >= pgTotal
    /\ pgpc' = "returned"
    /\ pgResult' = pgFiles
    /\ UNCHANGED <<pgI, pgCount, pgTotal, pgFiles, pgLast>>
    /\ UNCHANGED nonPageVars

PageInit ==
    /\ pgpc = "ready"
    /\ pgI = 1
    /\ pgCount = 0
    /\ pgTotal = 1
    /\ pgFiles = <<>>
    /\ pgLast = NoPage
    /\ pgResult = "none"

\* ReadDir when a specification does not call it.
PageIdle ==
    /\ pgpc = "returned"
    /\ pgI = 1
    /\ pgCount = 0
    /\ pgTotal = 1
    /\ pgFiles = <<>>
    /\ pgLast = NoPage
    /\ pgResult = "none"

PageNext ==
    \/ ReadDirStart
    \/ ReadDirPage
    \/ ReadDirReturns

(***************************************************************************)
(* The listing snapshot (config.go): the ALIST stage of Config.Run, which  *)
(* reads .alist.db or rebuilds it, over consecutive runs.                  *)
(***************************************************************************)
NoSnapshotLog == [age |-> "none", rows |-> {}, rebuilt |-> FALSE, scan |-> FALSE]

\* What follows a stage that failed: in daemon mode Run sleeps and goes back
\* to the label ALIST, otherwise it sends the status 3 and returns.
AfterAlistError == IF alDaemon THEN "ALIST" ELSE "failed"
\* What follows a stage that succeeded: "if cfg.RunMode&1 != 1" Run sends 0
\* and returns, otherwise it goes on to COMPARE with alistFiles.
AfterAlist == IF HasBit(alMode, 1) THEN "COMPARE" ELSE "returned"

\* getAllAlistFilesOnDemand decides to call generateAndCacheAlistFiles.
SnapshotNeedsRebuild == dbAge = "absent" \/ dbAge = "stale" \/ dbRows = {}

\* The stage with "cfg.RunMode&2 == 2": getAllAlistFilesOnDemand.  MkdirAll,
\* Stat and the read of a fresh snapshot may fail (fault).  A snapshot that
\* is absent, older than 24 hours or without rows is removed and
\* generateAlistDB is called: it creates the file and its table, then walks
\* the listing service and commits what the walk collected (genOK), or
\* fails and leaves a file without rows; the snapshot is then read again
\* (readOK).
GetAllAlistFilesOnDemand ==
    /\ alpc = "ALIST"
    /\ HasBit(alMode, 2)
    /\ \E fault \in BOOLEAN, genOK \in BOOLEAN, readOK \in BOOLEAN :
         /\ IF fault
            THEN /\ alpc' = AfterAlistError
                 /\ alLog' = [age |-> dbAge, rows |-> dbRows, rebuilt |-> FALSE, scan |-> TRUE]
                 /\ UNCHANGED <<dbAge, dbRows, alHanded>>
            ELSE IF ~SnapshotNeedsRebuild
            THEN /\ alHanded' = dbRows
                 /\ alpc' = AfterAlist
                 /\ alLog' = [age |-> dbAge, rows |-> dbRows, rebuilt |-> FALSE, scan |-> TRUE]
                 /\ UNCHANGED <<dbAge, dbRows>>
            ELSE /\ dbAge' = "fresh"
                 /\ dbRows' = IF genOK THEN alRemote ELSE {}
                 /\ alLog' = [age |-> dbAge, rows |-> dbRows, rebuilt |-> TRUE, scan |-> TRUE]
                 /\ IF genOK /\ readOK
                    THEN /\ alHanded' = alRemote
                         /\ alpc' = AfterAlist
                    ELSE /\ alpc' = AfterAlistError
                         /\ UNCHANGED alHanded
    /\ UNCHANGED <<alMode, alDaemon, alRemote>>
    /\ UNCHANGED nonAlistVars

\* The stage without that bit: listAlistFilesFromCache.  sql.Open and
\* createFileTable create the file and its table when there is none;
\* listFiles returns the rows there are.
ListAlistFilesFromCache ==
    /\ alpc = "ALIST"
    /\ ~HasBit(alMode, 2)
    /\ \E fault \in BOOLEAN :
         /\ alLog' = [age |-> dbAge, rows |-> dbRows, rebuilt |-> FALSE, scan |-> FALSE]
         /\ IF fault
            THEN /\ alpc' = AfterAlistError
                 /\ UNCHANGED <<dbAge, dbRows, alHanded>>
            ELSE /\ dbAge' = IF dbAge = "absent" THEN "fresh" ELSE dbAge
                 /\ alHanded' = dbRows
                 /\ alpc' = AfterAlist
                 /\ UNCHANGED dbRows
    /\ UNCHANGED <<alMode, alDaemon, alRemote>>
    /\ UNCHANGED nonAlistVars

\* Between two executions of the stage a day passes, or the listing service
\* gets or loses files.
SnapshotAges ==
    /\ alpc = "ALIST"
    /\ \/ /\ dbAge = "fresh"
          /\ dbAge' = "stale"
          /\ UNCHANGED alRemote
       \/ /\ alRemote' \in (SUBSET ListingTargets) \ {alRemote}
          /\ UNCHANGED dbAge
    /\ UNCHANGED <<alMode, alDaemon, dbRows, alpc, alHanded, alLog>>
    /\ UNCHANGED nonAlistVars

\* The rest of a run of the daemon, from COMPARE to the sleep of WAIT and
\* "goto METADATA": nothing of it touches .alist.db.
AlistNextRun ==
    /\ alpc = "COMPARE"
    /\ alDaemon
    /\ alpc' = "ALIST"
    /\ UNCHANGED <<alMode, alDaemon, dbAge, dbRows, alRemote, alHanded, alLog>>
    /\ UNCHANGED nonAlistVars

\* Run starts with any mode and a snapshot an earlier run left, or none.
AlistInit ==
    /\ PageIdle
    /\ alMode \in RunModes
    /\ alDaemon \in BOOLEAN
    /\ dbAge \in {"absent", "fresh", "stale"}
    /\ dbRows \in SUBSET ListingTargets
    /\ dbAge = "absent" => dbRows = {}
    /\ alRemote \in SUBSET ListingTargets
    /\ alpc = "ALIST"
    /\ alHanded = {}
    /\ alLog = NoSnapshotLog

\* The snapshot when a specification does not look at it.
SnapIdle ==
    /\ alMode = 7
    /\ alDaemon = FALSE
    /\ dbAge = "absent"
    /\ dbRows = {}
    /\ alRemote = {}
    /\ alpc = "returned"
    /\ alHanded = {}
    /\ alLog = NoSnapshotLog

AlistIdle ==
    /\ SnapIdle
    /\ PageIdle

AlistNext ==
    \/ GetAllAlistFilesOnDemand
    \/ ListAlistFilesFromCache
    \/ SnapshotAges
    \/ AlistNextRun

(***************************************************************************)
(* compareMetadata on its own: the preserve set it computes from the rows  *)
(* of the download index, the cached placeholders, the configuration and   *)
(* the listing, in the live variant (metadata.go) and in the cached one    *)
(* (config.go).                                                            *)
(***************************************************************************)
\* The rows of the download index: "/a/m.strm", "/a/p.nfo" next to it, and
\* "/ab/n.strm".
StrmM == <<47, 97, 47, 109, 46, 115, 116, 114, 109>>
\* "/a/p.nfo"
OtherP == <<47, 97, 47, 112, 46, 110, 102, 111>>
\* "/ab/n.strm"
StrmN == <<47, 97, 98, 47, 110, 46, 115, 116, 114, 109>>
CmpFiles == {StrmM, OtherP, StrmN}

\* What a cached placeholder may hold: the source endpoint with the target /x,
ContentX ==
    <<104, 116, 116, 112, 58, 47, 47, 120, 105, 97, 111, 121, 97, 46, 104, 111, 115, 116,
      58, 53, 54, 55, 56, 47, 100, 47, 120>>
\* with the target /s/y,
ContentSY ==
    <<104, 116, 116, 112, 58, 47, 47, 120, 105, 97, 111, 121, 97, 46, 104, 111, 115, 116,
      58, 53, 54, 55, 56, 47, 100, 47, 115, 47, 121>>
\* with a path that is not a valid escape, "/d/%zz",
ContentBadEscape ==
    <<104, 116, 116, 112, 58, 47, 47, 120, 105, 97, 111, 121, 97, 46, 104, 111, 115, 116,
      58, 53, 54, 55, 56, 47, 100, 47, 37, 122, 122>>
\* and another endpoint with the target /x.
ContentOtherHost ==
    <<104, 116, 116, 112, 58, 47, 47, 111, 116, 104, 101, 114, 46, 104, 111, 115, 116, 47,
      100, 47, 120>>
CmpContents == {ContentX, ContentSY, ContentBadEscape, ContentOtherHost}

\* The paths the listing service may have: "/x" and "/s/y".
CmpTargets == {<<47, 120>>, <<47, 115, 47, 121>>}

\* The skip lists as they are configured: none, or one prefix.
RawStrmSkips == {{}, {<<47, 97>>}, {<<47>>}}   \* "/a", "/"
RawAlistSkips == {{}, {<<115>>}}                \* "s"

TrimSuffix(s, suffix) ==
    IF Len(s) >= Len(suffix) /\ SubSeq(s, Len(s) - Len(suffix) + 1, Len(s)) = suffix
    THEN SubSeq(s, 1, Len(s) - Len(suffix))
    ELSE s

\* Validate, for a skip list: an entry is trimmed; "/" and "" are dropped;
\* the others get one leading and one trailing slash.
NormalizeSkips(list) ==
    {<<47>> \o TrimSuffix(TrimPrefix(TrimSpace(each), <<47>>), <<47>>) \o <<47>> :
        each \in {e \in list : TrimSpace(e) \notin {<<47>>, <<>>}}}

\* filepath.Ext of a path given as bytes
BytesExt(t) ==
    LET b == BytesBase(t)
        dots == {i \in DOMAIN b : b[i] = 46}
    IN IF dots = {} THEN <<>>
       ELSE SubSeq(b, CHOOSE i \in dots : \A j \in dots : j <= i, Len(b))

\* strmMap: the rows whose name has the extension ".strm".
CmpStrms == {fpath \in CmpFiles : BytesExt(fpath) = <<46, 115, 116, 114, 109>>}

\* "for _, toSkip := range cfg.StrmPathSkipVerify": fpath has one as prefix.
StrmSkippedBad(fpath) == FALSE
StrmSkipped(fpath) == \E toSkip \in StrmPathSkipVerify : HasPrefix(fpath, toSkip)

\* "for _, toSkip := range cfg.AlistPathSkipVerify": relUrl has one as prefix.
AlistSkipped(relUrl) == \E toSkip \in AlistPathSkipVerify : HasPrefix(relUrl, toSkip)

\* The placeholders the live variant enters into alistToScan: not skipped by
\* path, the cache file there, the content starting with the source endpoint,
\* the target not skipped.
LiveScanned ==
    {fpath \in CmpStrms :
        /\ ~StrmSkipped(fpath)
        /\ cmpContents[fpath] # NoFile
        /\ EmbeddedTarget(cmpContents[fpath]).has
        /\ ~AlistSkipped(EmbeddedTarget(cmpContents[fpath]).path)}

\* The names ReadDir(dir) returns.
ListedNames(dir) == {BytesBase(t) : t \in {q \in cmpListing : BytesDir(q) = dir}}

\* The last loop of compareMetadata: every row that is not in strmToSkip.
PreserveSetBad(strmToSkip) ==
    {fpath \in CmpFiles : \A skipped \in strmToSkip : BytesDir(fpath) # BytesDir(skipped)}
PreserveSet(strmToSkip) == CmpFiles \ strmToSkip

\* compareMetadata of metadata.go.  alistToScan keeps, for each directory
\* and name of a target, one of the placeholders that embed it; with purge,
\* that one is skipped when ReadDir of the directory fails or does not list
\* the name.
CompareLive ==
    /\ cmppc = "ready"
    /\ cmpVariant = "live"
    /\ LET TargetOf(fpath) == EmbeddedTarget(cmpContents[fpath]).path
           targets == {TargetOf(fpath) : fpath \in LiveScanned}
       IN \E ok \in BOOLEAN :
          \E alistToScan \in {f \in [targets -> LiveScanned] :
                                 \A t \in targets : TargetOf(f[t]) = t} :
          \E failedDirs \in SUBSET {BytesDir(t) : t \in targets} :
             LET absent == {t \in targets :
                               \/ BytesDir(t) \in failedDirs
                               \/ BytesBase(t) \notin ListedNames(BytesDir(t))}
                 strmToSkip == IF cmpPurge THEN {alistToScan[t] : t \in absent} ELSE {}
             IN /\ (~cmpPurge \/ ~ok) => failedDirs = {}
                /\ cmpFailedDirs' = failedDirs
                /\ IF ok
                   THEN cmppc' = "done" /\ cmpPreserve' = PreserveSet(strmToSkip)
                   ELSE cmppc' = "failed" /\ UNCHANGED cmpPreserve
    /\ UNCHANGED <<cmpVariant, cmpPurge, cmpContents, cmpListing, StrmPathSkipVerify,
                   AlistPathSkipVerify>>
    /\ UNCHANGED nonCompareVars

\* compareMetadata of config.go.  A placeholder whose cache file is there is
\* skipped when its content is no URL, and, with purge, when the snapshot
\* of the listing does not have its target.
CompareCached ==
    /\ cmppc = "ready"
    /\ cmpVariant = "cached"
    /\ LET read == {fpath \in CmpStrms : cmpContents[fpath] # NoFile}
           UrlOf(fpath) ==
               Parse(ReplaceAll(TrimSpace(cmpContents[fpath]), <<37, 50, 48>>, <<32>>))
           linkpath(fpath) == StripRoot(UrlOf(fpath).Path)
           strmToSkip == {fpath \in read :
                             \/ ~UrlOf(fpath).ok
                             \/ linkpath(fpath) \notin cmpListing /\ cmpPurge}
       IN \E ok \in BOOLEAN :
             IF ok
             THEN cmppc' = "done" /\ cmpPreserve' = PreserveSet(strmToSkip)
             ELSE cmppc' = "failed" /\ UNCHANGED cmpPreserve
    /\ UNCHANGED <<cmpVariant, cmpPurge, cmpContents, cmpListing, StrmPathSkipVerify,
                   AlistPathSkipVerify, cmpFailedDirs>>
    /\ UNCHANGED nonCompareVars

\* Any variant and purge flag, any content or no cache file for each
\* placeholder, any listing; the skip lists, which only the live variant
\* has, as Validate leaves them.
CompareInit ==
    /\ cmpVariant \in Variants
    /\ cmpPurge \in BOOLEAN
    /\ cmpContents \in [CmpStrms -> CmpContents \cup {NoFile}]
    /\ cmpListing \in SUBSET CmpTargets
    /\ \E raw \in RawStrmSkips :
          StrmPathSkipVerify = IF cmpVariant = "live" THEN NormalizeSkips(raw) ELSE {}
    /\ \E raw \in RawAlistSkips :
          AlistPathSkipVerify = IF cmpVariant = "live" THEN NormalizeSkips(raw) ELSE {}
    /\ cmppc = "ready"
    /\ cmpPreserve = {}
    /\ cmpFailedDirs = {}

\* compareMetadata when a specification does not run it.
CompareIdle ==
    /\ cmpVariant = "live"
    /\ cmpPurge = TRUE
    /\ cmpContents = <<>>
    /\ cmpListing = {}
    /\ StrmPathSkipVerify = {}
    /\ AlistPathSkipVerify = {}
    /\ cmppc = "done"
    /\ cmpPreserve = {}
    /\ cmpFailedDirs = {}

CompareNext ==
    \/ CompareLive
    \/ CompareCached

WalkInit ==
    /\ walkVariant \in {"crawler", "alist"}
    /\ remoteTree \in TreesUpTo(MaxNodes, WalkNames)
    /\ selectedPaths \in (SUBSET WalkNames) \ {{}}
    /\ wpc = "ready"
    /\ stack = <<>>
    /\ walkResult = "none"
    /\ visitLog = <<>>
    /\ readDirLog = <<>>
    /\ spawned = {}
    /\ alistTx = {}
    /\ statErr = "none"
    /\ alistDB = {}
    /\ genResult = "none"

\* The walk component when a specification does not run it.
WalkIdle ==
    /\ walkVariant = "crawler"
    /\ remoteTree = {}
    /\ selectedPaths = {}
    /\ wpc = "returned"
    /\ stack = <<>>
    /\ walkResult = "nil"
    /\ visitLog = <<>>
    /\ readDirLog = <<>>
    /\ spawned = {}
    /\ alistTx = {}
    /\ statErr = "none"
    /\ alistDB = {}
    /\ genResult = "none"

MirrorIdle ==
    /\ mcState = "running"
    /\ attempts = 1
    /\ vpc = "published"
    /\ vIdx = 1
    /\ mirrorsToSort = <<>>
    /\ validMirrors = Mirrors
    /\ probeStats = <<>>
    /\ lastCompleted = Mirrors
    /\ readerList = [r \in Readers |-> None]
    /\ readerExpected = [r \in Readers |-> None]

WalkNext ==
    \/ WalkStart
    \/ WalkChild
    \/ WalkLoopEnds
    \/ GenerateAlistDBReturns

InitMirror ==
    /\ MirrorInit
    /\ WalkIdle
    /\ SyncIdle
    /\ RewriteIdle
    /\ IndexIdle
    /\ ReconIdle
    /\ RunIdle
    /\ CompareIdle
    /\ AlistIdle
SpecMirror == InitMirror /\ [][MirrorNext]_vars

InitWalk ==
    /\ WalkInit
    /\ MirrorIdle
    /\ SyncIdle
    /\ RewriteIdle
    /\ IndexIdle
    /\ ReconIdle
    /\ RunIdle
    /\ CompareIdle
    /\ AlistIdle
SpecWalk == InitWalk /\ [][WalkNext]_vars

InitSync ==
    /\ SyncInit
    /\ MirrorIdle
    /\ RewriteIdle
    /\ IndexIdle
    /\ ReconIdle
    /\ RunIdle
    /\ CompareIdle
    /\ AlistIdle
SpecSync == InitSync /\ [][SyncNext]_vars

\* A constructed crawler whose last validation cycle kept one mirror.
OneMirror ==
    /\ mcState = "running"
    /\ attempts = 1
    /\ vpc = "published"
    /\ vIdx = 1
    /\ mirrorsToSort = <<>>
    /\ validMirrors = <<Mirrors[1]>>
    /\ probeStats = <<>>
    /\ lastCompleted = <<Mirrors[1]>>
    /\ readerList = [r \in Readers |-> None]
    /\ readerExpected = [r \in Readers |-> None]

InitPool ==
    /\ PoolInit
    /\ OneMirror
    /\ RewriteIdle
    /\ IndexIdle
    /\ ReconIdle
    /\ RunIdle
    /\ CompareIdle
    /\ AlistIdle
SpecPool == InitPool /\ [][SyncNext]_vars

InitRewrite ==
    /\ RewriteInit
    /\ MirrorIdle
    /\ WalkIdle
    /\ SyncIdle
    /\ IndexIdle
    /\ ReconIdle
    /\ RunIdle
    /\ CompareIdle
    /\ AlistIdle
SpecRewrite == InitRewrite /\ [][RewriteNext]_vars

InitIndex ==
    /\ IndexInit
    /\ MirrorIdle
    /\ WalkIdle
    /\ SyncIdle
    /\ RewriteIdle
    /\ ReconIdle
    /\ RunIdle
    /\ CompareIdle
    /\ AlistIdle
SpecIndex == InitIndex /\ [][IndexNext]_vars

InitRecon ==
    /\ ReconInit
    /\ MirrorIdle
    /\ WalkIdle
    /\ RewriteIdle
    /\ IndexIdle
    /\ RunIdle
    /\ CompareIdle
    /\ AlistIdle
SpecRecon == InitRecon /\ [][ReconNext]_vars

InitAlist ==
    /\ AlistInit
    /\ MirrorIdle
    /\ WalkIdle
    /\ SyncIdle
    /\ RewriteIdle
    /\ IndexIdle
    /\ ReconIdle
    /\ RunIdle
    /\ CompareIdle
SpecAlist == InitAlist /\ [][AlistNext]_vars

\* A call of ReadDir always goes on: its loop is straight-line code around a
\* request with a timeout.
InitPage ==
    /\ PageInit
    /\ SnapIdle
    /\ MirrorIdle
    /\ WalkIdle
    /\ SyncIdle
    /\ RewriteIdle
    /\ IndexIdle
    /\ ReconIdle
    /\ RunIdle
    /\ CompareIdle
SpecPage == InitPage /\ [][PageNext]_vars /\ WF_vars(PageNext)

\* A first run in which the download index still holds q.nfo, which the
\* mirrors no longer serve (the crawler removes no row, metadata.go:619-636),
\* with its cache file; p.nfo is cached in its old version or not yet, and
\* each of the two may have been published by an earlier run.
PublishInit ==
    /\ purge \in BOOLEAN
    /\ alistFiles = ListingTargets
    /\ htmlAnswers = {}
    /\ \E cp \in {"none", "old"} :
         /\ dlIndex = [path \in ReconPaths |->
                          IF path = OrphanFile THEN OutdatedRow
                          ELSE IF path = <<"a", "p.nfo">> /\ cp = "old" THEN OutdatedRow
                          ELSE NoRow]
         /\ dlFiles = [path \in ReconPaths |->
                          IF path = OrphanFile THEN "old"
                          ELSE IF path = <<"a", "p.nfo">> THEN (IF cp = "old" THEN "old" ELSE "absent")
                          ELSE "absent"]
    /\ \E sp \in BOOLEAN, sq \in BOOLEAN :
         /\ servedFiles = [path \in ReconPaths |->
                             IF (path = <<"a", "p.nfo">> /\ sp) \/ (path = OrphanFile /\ sq)
                             THEN OldContent(path)
                             ELSE NoFile]
         /\ servedIndex = [path \in ReconPaths |->
                             IF (path = <<"a", "p.nfo">> /\ sp) \/ (path = OrphanFile /\ sq)
                             THEN SameDataRow
                             ELSE NoRow]
    /\ reconpc = "download"
    /\ run = 1
    /\ filesToPreserve = {}
    /\ filesNeedUpdate = {}
    /\ runLog = EmptyLog
    /\ faulted = FALSE
    /\ candidates = {}
    /\ servedBefore = <<>>
    /\ syncpc = "returned"
    /\ syncResult = "nil"
    /\ running = {}
    /\ finished = {}
    /\ failed = {}
    /\ failed2 = {}
    /\ retry = 0
    /\ rounds = 0
    /\ decisions = <<>>
    /\ commits = <<>>
    /\ lastAttempt = <<>>

InitPublish ==
    /\ PublishInit
    /\ MirrorIdle
    /\ WalkIdle
    /\ RewriteIdle
    /\ IndexIdle
    /\ RunIdle
    /\ CompareIdle
    /\ AlistIdle
SpecPublish == InitPublish /\ [][ReconNext]_vars

InitRun ==
    /\ RunInit
    /\ MirrorIdle
    /\ WalkIdle
    /\ SyncIdle
    /\ RewriteIdle
    /\ IndexIdle
    /\ ReconIdle
    /\ CompareIdle
    /\ AlistIdle
SpecRun == InitRun /\ [][RunNext]_vars

InitCompare ==
    /\ CompareInit
    /\ MirrorIdle
    /\ WalkIdle
    /\ SyncIdle
    /\ RewriteIdle
    /\ IndexIdle
    /\ ReconIdle
    /\ RunIdle
    /\ AlistIdle
SpecCompare == InitCompare /\ [][CompareNext]_vars

(***************************************************************************)
(* Claims about the walkers.                                               *)
(***************************************************************************)
\* The directories of the remote tree that the allow-list leaves out.
ExcludedDirs ==
    {n.path : n \in {x \in remoteTree : x.isdir /\ x.path[1] \notin selectedPaths}}

\* C4: during MetadataCrawler.Sync, ReadDir is never called on a descendant
\* of a directory whose top-level path segment is not in the allow-list,
\* whatever the remote tree and the allow-list are.
C4_NoReadDirBelowExcluded ==
    walkVariant = "crawler" =>
        \A i \in DOMAIN readDirLog :
            \A d \in ExcludedDirs : ~IsDescendant(readDirLog[i], d)

\* The walk of Sync is over, it reached a directory outside the allow-list
\* that has a directory below it, and went on after it.
C4_Witness ==
    /\ walkVariant = "crawler"
    /\ wpc = "returned"
    /\ walkResult = "nil"
    /\ \E d \in ExcludedDirs :
          /\ \E i \in DOMAIN readDirLog : readDirLog[i] = d
          /\ \E n \in remoteTree : n.isdir /\ IsDescendant(n.path, d)

\* The length of the longest common prefix of two paths.
RECURSIVE CommonLen(_, _)
CommonLen(p, q) ==
    IF p = <<>> \/ q = <<>> \/ Head(p) # Head(q) THEN 0
    ELSE 1 + CommonLen(Tail(p), Tail(q))

\* C5: in both walkers, the children of a directory are visited in strictly
\* ascending order of name, and every visit in the subtree of one child comes
\* before the visit of the next child: of two visits that part ways below a
\* directory, the earlier one is under the child with the smaller name, and
\* no path is visited twice.
C5_WalkOrder ==
    \A i, j \in DOMAIN visitLog :
        i < j =>
            LET p == visitLog[i].path
                q == visitLog[j].path
                k == CommonLen(p, q)
            IN /\ p # q
               /\ (k < Len(p) /\ k < Len(q)) => NameLess(p[k + 1], q[k + 1])

\* A directory whose entries ReadDir returned out of order, one of them a
\* directory with an entry of its own, has had all its children visited.
C5_Witness ==
    /\ wpc = "walking"
    /\ \E f \in Range(stack) :
          /\ f.idx > Len(f.entries)
          /\ Len(f.listed) >= 2
          /\ NameLess(f.listed[2].name, f.listed[1].name)
          /\ \E i, j, k \in DOMAIN visitLog :
                /\ i < j /\ j < k
                /\ IsChildOf(visitLog[i].path, f.path)
                /\ IsChildOf(visitLog[j].path, visitLog[i].path)
                /\ IsChildOf(visitLog[k].path, f.path)

(***************************************************************************)
(* Claims about the download engine.                                       *)
(***************************************************************************)
\* C3 as stated: the failed paths are retried in at most 5 batch rounds, and
\* the "maximum retry attempts exceeded" error comes after the fifth round
\* without a sixth one being started.
C3_AtMostFiveRounds ==
    /\ rounds <= 5
    /\ syncResult = "maximum retry attempts exceeded" => rounds = 5

\* C6: the download predicate accepts a remote file exactly when there is no
\* usable record of it (no row, or a row whose cache file is missing) or the
\* remote file is strictly newer than the record and differs from it in size
\* or etag; when it refuses, the cache file and the row stay as they were.
C6_DownloadPredicate ==
    \A t \in spawned :
        decisions[t.path] # "none" =>
            /\ decisions[t.path] = "true" <=>
                  \/ t.seenRow = NoRow
                  \/ t.seenFile = "absent"
                  \/ /\ RemoteMeta.modified > t.seenRow.modified
                     /\ \/ RemoteMeta.size # t.seenRow.size
                        \/ RemoteMeta.etag # t.seenRow.etag
            /\ decisions[t.path] = "false" =>
                  /\ dlIndex[t.path] = t.seenRow
                  /\ dlFiles[t.path] = t.seenFile

\* Sync is over; it refused a remote file that is newer than the record but
\* has its size and etag, and accepted one whose row had lost its cache file.
C6_Witness ==
    /\ syncpc = "returned"
    /\ syncResult = "nil"
    /\ \E t \in spawned :
          /\ decisions[t.path] = "false"
          /\ t.seenRow # NoRow
          /\ t.seenRow.modified < RemoteMeta.modified
    /\ \E t \in spawned : decisions[t.path] = "true"

(***************************************************************************)
(* Claims about the placeholder rewrite.                                   *)
(***************************************************************************)
\* The configured endpoint without its trailing slash, the configured root
\* path, the remainder and a newline.
ExpectedLine == SubSeq(AlistURL, 1, Len(AlistURL) - 1) \o rwRoot \o rwRemainder \o <<10>>

PlainRemainder(r) ==
    /\ HasPrefix(r, <<47>>)
    /\ LET t == ReplaceAll(r, <<37, 50, 48>>, <<>>)
       IN \A i \in DOMAIN t : ~ShouldEscape(t[i])

C9_RoundTripEveryRecord ==
    \A r \in idxRead :
        idxWritten[r.path] # NoRecord => r = idxWritten[r.path]

\* C9: a record that is not a directory, stored by updateToDB and read back
\* by path with pickFirstFile or listFiles, has the name, size, modified time,
\* etag and isDirectory it was stored with; a directory record comes back
\* with the same name, size, modified time and etag and with isDirectory
\* false.
C9_RoundTripFiles ==
    \A r \in idxRead :
        idxWritten[r.path] # NoRecord =>
            r = [idxWritten[r.path] EXCEPT !.isdir = FALSE]

\* A file record with an etag and a size, whose name is not the base name of
\* its path, has been stored and read back by listFiles along with another
\* row.
C9_Witness ==
    \E r \in idxRead :
        /\ idxWritten[r.path] = r
        /\ r.etag # ""
        /\ r.size # 0
        /\ r.name # IndexBase(r.path)
        /\ Cardinality(idxRead) = 2

(***************************************************************************)
(* Claims about the reconciliation.                                        *)
(***************************************************************************)
\* C1 as stated: with purge enabled, once Compare and Prepare have run
\* without any failure, no placeholder that had a served file and an absent
\* target still has its served file.
C1_PurgedAfterPrepare ==
    (purge /\ reconpc = "sync" /\ ~faulted) =>
        \A path \in candidates : servedFiles[path] = NoFile

C11_TaskTransactional ==
    [][\A path \in SyncPaths :
          LET ended == {e \in running \ running' : e.path = path}
              erred == IF syncpc = "walk" THEN ended \cap failed'
                       ELSE ended \cap failed2'
          IN /\ dlIndex'[path] # dlIndex[path] =>
                    /\ ended # {}
                    /\ erred = {}
                    /\ commits'[path] = commits[path] + 1
                    /\ dlFiles'[path] = "new"
             /\ commits'[path] # commits[path] =>
                    /\ ended # {}
                    /\ erred = {}
                    /\ commits'[path] = 1
                    /\ dlIndex'[path] = RemoteMeta
             /\ erred # {} =>
                    /\ dlIndex'[path] = dlIndex[path]
                    /\ commits'[path] = commits[path]]_vars

\* One task has committed its upsert; another one has written its file, in
\* part or whole, and ended with an error, and its row is the one it had.
C11_Witness ==
    \E path \in SyncPaths, other \in SyncPaths :
        /\ commits[path] = 1
        /\ dlIndex[path] = RemoteMeta
        /\ commits[other] = 0
        /\ dlFiles[other] \in {"partial", "new"}
        /\ dlIndex[other] # RemoteMeta
        /\ \E e \in failed \cup failed2 : e.path = other

\* The download tasks Sync has dispatched in the batch it is in, or was in
\* when it returned, that have not ended: those holding a slot and those
\* waiting for one.
Outstanding ==
    IF syncpc = "walk" \/ (syncpc = "returned" /\ walkResult # "nil")
    THEN {[path |-> t.path, info |-> t.oldFile] : t \in spawned} \ finished
    ELSE (failed \ finished) \cup running

\* C12: when Sync has returned, with nil or with any error, a walk error
\* included, none of the download tasks it dispatched is still running or
\* waiting to run.
C12_Barrier ==
    syncpc = "returned" => (Outstanding = {} /\ running = {})

\* Sync has returned the error of the walk after the walk had dispatched
\* tasks, one of which has downloaded its file.
C12_Witness ==
    /\ syncpc = "returned"
    /\ walkResult # "nil"
    /\ syncResult = walkResult
    /\ spawned # {}
    /\ \E e \in finished : commits[e.path] = 1

(***************************************************************************)
(* Claims about the orchestrator.                                          *)
(***************************************************************************)
\* The stages of a cycle as the specification names them, by their labels
\* in Run, and the stages each variant of Run has.
SixStages == <<"METADATA", "ALIST", "COMPARE", "PREPARE", "SYNC", "WAIT">>
StagesOf(variant) ==
    IF variant = "cached" THEN SixStages
    ELSE <<"METADATA", "COMPARE", "PREPARE", "SYNC", "WAIT">>

\* The executions of stageLog follow order: the first is the first stage of
\* order, and each later one is the stage that just failed, or the successor
\* in order of the stage that just succeeded, the first stage after the last.
OrderedBy(order) ==
    \A i \in 1 .. Len(stageLog) :
        IF i = 1 THEN stageLog[i].stage = order[1]
        ELSE LET p == stageLog[i - 1]
             IN IF ~p.ok THEN stageLog[i].stage = p.stage
                ELSE \E k \in 1 .. Len(order) :
                        /\ order[k] = p.stage
                        /\ stageLog[i].stage = order[(k % Len(order)) + 1]

\* C13 as stated: in both variants the stages run in the order
\* FETCH_METADATA, RESOLVE_VALIDATION_SOURCE, COMPARE, PREPARE, SYNC, WAIT,
\* each after its predecessor has succeeded.
C13_SixStagesInOrder == OrderedBy(SixStages)

\* C13: the stages run in the order of the variant's stages, each only
\* after its predecessor has succeeded, the first one again after WAIT; the
\* live variant has no RESOLVE_VALIDATION_SOURCE.  No stage after the fetch
\* stages runs when bit 1 of the run mode is unset, and WAIT runs in daemon
\* mode only.
C13_StagesInOrder ==
    /\ OrderedBy(StagesOf(orchVariant))
    /\ \A i \in 1 .. Len(stageLog) :
          /\ stageLog[i].stage \in {"COMPARE", "PREPARE", "SYNC", "WAIT"} =>
                HasBit(RunMode, 1)
          /\ stageLog[i].stage = "WAIT" => RunAsDaemon

\* A whole cycle of the cached variant has run, a stage retried in it, and
\* the next cycle has started.
C13_Witness ==
    /\ orchVariant = "cached"
    /\ \E i \in 1 .. Len(stageLog) - 1 :
          /\ stageLog[i].stage = "WAIT"
          /\ stageLog[i + 1].stage = "METADATA"
    /\ \E i \in 1 .. Len(stageLog) : ~stageLog[i].ok

\* C14: in daemon mode the step in which a stage fails leaves Run at the
\* label of that stage and sends nothing, however many times the stage has
\* failed before; no status but 0 is ever sent or received, and Run returns
\* only where bit 1 of the run mode is unset.
C14_DaemonRetriesStage ==
    /\ [](RunAsDaemon =>
            /\ \A i \in 1 .. Len(ecodeCh) : ecodeCh[i] = 0
            /\ \A i \in 1 .. Len(pending) : pending[i].ch = "ecode" => pending[i].val = 0
            /\ mainEcode \in {-1, 0}
            /\ exitCode \in {-1, 0}
            /\ opc \in {"send", "returned"} => ~HasBit(RunMode, 1))
    /\ [][(RunAsDaemon /\ stageLog' # stageLog /\ ~stageLog'[Len(stageLog')].ok) =>
              /\ opc' = stageLog'[Len(stageLog')].stage
              /\ opc' = opc
              /\ pending' = <<>>
              /\ ecodeCh' = ecodeCh
              /\ errCh' = errCh
              /\ mainpc' = mainpc]_vars

\* In daemon mode COMPARE has failed three times in a row, then succeeded,
\* and PREPARE has run.
C14_Witness ==
    /\ RunAsDaemon
    /\ \E i \in 1 .. Len(stageLog) - 4 :
          /\ \A k \in i .. i + 2 : stageLog[k].stage = "COMPARE" /\ ~stageLog[k].ok
          /\ stageLog[i + 3].stage = "COMPARE" /\ stageLog[i + 3].ok
          /\ stageLog[i + 4].stage = "PREPARE"

\* C15: in one-shot mode a stage that failed is the last one executed, and
\* what the command receives and exits with is the status of that stage,
\* fetch 2, resolve 3, compare 126, prepare 127, sync 128, with the error.
C15_OneShotAborts ==
    ~RunAsDaemon =>
        \A i \in 1 .. Len(stageLog) :
            ~stageLog[i].ok =>
                LET stage == stageLog[i].stage
                    status == CASE stage = "METADATA" -> 2
                                [] stage = "ALIST" -> 3
                                [] stage = "COMPARE" -> 126
                                [] stage = "PREPARE" -> 127
                                [] stage = "SYNC" -> 128
                IN /\ i = Len(stageLog)
                   /\ mainpc = "recvEcode" =>
                         /\ ecodeCh \in {<<>>, <<status>>}
                         /\ errCh \in {<<>>, <<"err">>}
                   /\ mainpc = "recvErr" =>
                         /\ mainEcode = status
                         /\ errCh \in {<<>>, <<"err">>}
                   /\ mainpc # "returned"
                   /\ mainpc = "exited" =>
                         /\ mainEcode = status
                         /\ mainErr = "err"
                         /\ exitCode = status

\* In one-shot mode SYNC has failed and the process has exited with 128,
\* after Run had gone on to send the status 0.
C15_Witness ==
    /\ ~RunAsDaemon
    /\ mainpc = "exited"
    /\ exitCode = 128
    /\ mainErr = "err"
    /\ ecodeCh = <<0>>

(***************************************************************************)
(* Claims about compareMetadata.                                           *)
(***************************************************************************)
\* C16 as stated: with purge disabled, in each variant, the preserve set is
\* the set of all cached file paths.
C16_PreserveAllWithoutPurge ==
    (cmppc = "done" /\ ~cmpPurge) => cmpPreserve = CmpFiles

\* C17: in the live variant, with purge enabled or disabled and whatever the
\* listing has, a placeholder whose path starts with a strm skip prefix, or
\* whose embedded target starts with an alist skip prefix, is in the preserve
\* set.
C17_SkippedArePreserved ==
    (cmppc = "done" /\ cmpVariant = "live") =>
        \A fpath \in CmpStrms :
            (\/ \E toSkip \in StrmPathSkipVerify : HasPrefix(fpath, toSkip)
             \/ /\ cmpContents[fpath] # NoFile
                /\ EmbeddedTarget(cmpContents[fpath]).has
                /\ \E toSkip \in AlistPathSkipVerify :
                      HasPrefix(EmbeddedTarget(cmpContents[fpath]).path, toSkip))
            => fpath \in cmpPreserve

\* With purge, a placeholder under a strm skip prefix is preserved although
\* the listing does not have its target, and the placeholder of a directory
\* whose name only starts like the prefix is not.
C17_Witness ==
    /\ cmppc = "done"
    /\ cmpVariant = "live"
    /\ cmpPurge
    /\ StrmPathSkipVerify # {}
    /\ \E fpath \in CmpStrms :
          /\ \E toSkip \in StrmPathSkipVerify : HasPrefix(fpath, toSkip)
          /\ cmpContents[fpath] # NoFile
          /\ EmbeddedTarget(cmpContents[fpath]).has
          /\ EmbeddedTarget(cmpContents[fpath]).path \notin cmpListing
          /\ fpath \in cmpPreserve
    /\ CmpStrms \ cmpPreserve # {}

\* C18 as stated: with purge enabled, no file of the directory of a
\* placeholder that could not be verified is in the preserve set.
C18_DirectoryLosesFiles ==
    (cmppc = "done" /\ cmpPurge) =>
        \A fpath \in CmpStrms \ cmpPreserve :
            \A other \in CmpFiles :
                BytesDir(other) = BytesDir(fpath) => other \notin cmpPreserve

\* A placeholder that compareMetadata reads cannot be verified: in the
\* cached variant its content is no URL or the snapshot lacks its target; in
\* the live variant its content starts with the source endpoint and the
\* listing lacks its target or the directory of the target could not be read.
Unverified(fpath) ==
    /\ cmpContents[fpath] # NoFile
    /\ IF cmpVariant = "cached"
       THEN LET u == Parse(ReplaceAll(TrimSpace(cmpContents[fpath]), <<37, 50, 48>>, <<32>>))
            IN ~u.ok \/ StripRoot(u.Path) \notin cmpListing
       ELSE LET t == EmbeddedTarget(cmpContents[fpath])
            IN /\ t.has
               /\ \/ t.path \notin cmpListing
                  \/ BytesDir(t.path) \in cmpFailedDirs

\* C18: with purge enabled, the paths that are not in the preserve set are
\* placeholders that could not be verified and that no skip prefix covers;
\* the other files of their directories are in it.  In the cached variant
\* every placeholder that could not be verified is left out; in the live one
\* at least one of the placeholders that embed the same target.
C18_OnlyUnverifiedPlaceholders ==
    (cmppc = "done" /\ cmpPurge) =>
        /\ CmpFiles \ CmpStrms \subseteq cmpPreserve
        /\ \A fpath \in CmpStrms \ cmpPreserve : Unverified(fpath)
        /\ \A fpath \in CmpStrms :
              Unverified(fpath) =>
                 \/ fpath \notin cmpPreserve
                 \/ /\ cmpVariant = "live"
                    /\ \/ StrmSkipped(fpath)
                       \/ AlistSkipped(EmbeddedTarget(cmpContents[fpath]).path)
                       \/ \E other \in CmpStrms \ cmpPreserve :
                             /\ Unverified(other)
                             /\ EmbeddedTarget(cmpContents[other]).path =
                                   EmbeddedTarget(cmpContents[fpath]).path

\* With purge, the placeholder of /a could not be verified and is left out
\* while the file next to it is preserved.
C18_Witness ==
    /\ cmppc = "done"
    /\ cmpPurge
    /\ StrmM \notin cmpPreserve
    /\ OtherP \in cmpPreserve
    /\ StrmN \in cmpPreserve
    /\ cmpContents[StrmN] # NoFile

(***************************************************************************)
(* Claims about prepareMetadataUpdate.                                     *)
(***************************************************************************)
\* C19 as stated: when Prepare has returned successfully, every record the
\* served index had that is not in the preserve set has lost its row and
\* its file in the served directory, and every record in the preserve set
\* has kept both.
C19_PrepareDeletes ==
    reconpc = "sync" =>
        \A path \in IndexedPaths(servedBefore.index) :
            IF path \notin filesToPreserve
            THEN servedIndex[path] = NoRow /\ servedFiles[path] = NoFile
            ELSE /\ servedIndex[path] = servedBefore.index[path]
                 /\ servedFiles[path] = servedBefore.files[path]

\* C20: when Prepare has returned successfully, a preserved path with a
\* download row is in the update set exactly when it is a placeholder, or
\* it had no served row, or its download row is strictly newer than its
\* served row and differs from it in size or etag; the update set holds
\* nothing else.
C20_UpdateSet ==
    reconpc = "sync" =>
        /\ filesNeedUpdate \subseteq {path \in filesToPreserve : dlIndex[path] # NoRow}
        /\ \A path \in filesToPreserve :
              dlIndex[path] # NoRow =>
                  LET remoteFile == dlIndex[path]
                      localFile == servedBefore.index[path]
                  IN path \in filesNeedUpdate <=>
                        \/ Ext(Base(path)) = <<46, 115, 116, 114, 109>>
                        \/ localFile = NoRow
                        \/ /\ remoteFile.modified > localFile.modified
                           /\ \/ remoteFile.size # localFile.size
                              \/ remoteFile.etag # localFile.etag

\* Prepare has returned an update set with a placeholder in it and without
\* the regular file, whose served row is not older than its download row
\* and differs from it.
C20_Witness ==
    /\ reconpc = "sync"
    /\ \E path \in filesNeedUpdate : IsStrm(path)
    /\ \E path \in filesToPreserve \ filesNeedUpdate :
          /\ servedBefore.index[path] # NoRow
          /\ dlIndex[path].modified = servedBefore.index[path].modified
          /\ dlIndex[path].size # servedBefore.index[path].size

(***************************************************************************)
(* Claims about the reconcile Sync.                                        *)
(***************************************************************************)
\* C21 as stated: a placeholder with a row in the download index and no
\* cache file is a legitimate absence: when Compare and Prepare have
\* returned and such a placeholder is in the update set, syncMetadata does
\* not return an error unless a call to the file system or the database
\* failed.
C21_MissingFileTolerated ==
    ~(/\ reconpc = "failed"
      /\ runLog.syncFault = "nofault"
      /\ \E path \in filesNeedUpdate : IsStrm(path) /\ dlFiles[path] = "absent")

(***************************************************************************)
(* Claims about errors in the walkers.                                     *)
(***************************************************************************)
\* C22 as stated: when generateAlistDB has returned nil, neither the Stat of
\* the root nor the ReadDir of any directory had failed during its walk.
C22_NoRemoteErrorDropped ==
    (walkVariant = "alist" /\ genResult = "nil") =>
        \A i \in DOMAIN visitLog : visitLog[i].err = "nil"

\* Whether path is the root or a directory of the remote tree.
IsDirPath(path) == path = Root \/ \E n \in remoteTree : n.isdir /\ n.path = path

\* The visit of a directory whose ReadDir (for the root: whose Stat) failed
\* or for which the callback returned something else than nil.
Blocked(i) ==
    /\ IsDirPath(visitLog[i].path)
    /\ (visitLog[i].err # "nil" \/ visitLog[i].ret # "nil")

\* C26 as stated: when Walk has returned, no child of a directory whose
\* ReadDir failed or whose callback returned an error has been visited, and
\* unless the callback returned SkipDir or SkipAll, Walk has returned an
\* error, also when the callback returned nil for a ReadDir error.
C26_ReadDirErrorPropagates ==
    wpc = "returned" =>
        \A i \in DOMAIN visitLog :
            Blocked(i) =>
                /\ \A j \in DOMAIN visitLog :
                      ~IsDescendant(visitLog[j].path, visitLog[i].path)
                /\ visitLog[i].ret \notin {"SkipDir", "SkipAll"} => walkResult # "nil"

\* C26: no child of a directory whose ReadDir failed or whose callback
\* returned something else than nil is ever visited, and what propagates is
\* what the callback returned: an error other than the sentinels ends the
\* walk and is what Walk returns, SkipAll ends the walk and Walk returns
\* nil, and after nil (the callback ignoring a ReadDir error) or SkipDir the
\* walk goes on, so that a walk in which the callback returned nothing else
\* has visited every node that is not below such a directory.
C26_CallbackResultPropagates ==
    /\ \A i \in DOMAIN visitLog :
          Blocked(i) =>
              /\ \A j \in DOMAIN visitLog :
                    ~IsDescendant(visitLog[j].path, visitLog[i].path)
              /\ visitLog[i].ret \notin {"nil", "SkipDir"} =>
                    /\ i = Len(visitLog)
                    /\ wpc = "returned"
                    /\ walkResult = IF visitLog[i].ret = "SkipAll" THEN "nil"
                                    ELSE visitLog[i].ret
    /\ (/\ wpc = "returned"
        /\ \A k \in DOMAIN visitLog : visitLog[k].ret \in {"nil", "SkipDir"}) =>
           /\ walkResult = "nil"
           /\ \A n \in remoteTree :
                 (\A i \in DOMAIN visitLog :
                     Blocked(i) => ~IsDescendant(n.path, visitLog[i].path))
                 => \E j \in DOMAIN visitLog : visitLog[j].path = n.path

\* The walk of generateAlistDB has returned nil; ReadDir had failed for a
\* directory that has an entry, the callback returned nil for it, and the
\* walk went on to a later sibling.
C26_Witness ==
    /\ walkVariant = "alist"
    /\ wpc = "returned"
    /\ walkResult = "nil"
    /\ \E i, j \in DOMAIN visitLog :
          /\ i < j
          /\ visitLog[i].path # Root
          /\ visitLog[i].err = "PathError"
          /\ visitLog[i].ret = "nil"
          /\ \E n \in remoteTree : IsChildOf(n.path, visitLog[i].path)
          /\ Dir(visitLog[j].path) = Dir(visitLog[i].path)

\* C27 as stated: MetadataCrawler.Sync issues no ReadDir request for a
\* directory whose top-level segment is not allow-listed.
C27_NoReadDirOfExcluded ==
    walkVariant = "crawler" =>
        \A i \in DOMAIN readDirLog : readDirLog[i] \notin ExcludedDirs

\* C28: Stat of the root comes before any visit and any ReadDir; when it
\* fails, the callback is called once, with the root and the error, ReadDir
\* is not called, and Walk returns what the callback returned, nil when
\* that is nil, SkipDir or SkipAll.
C28_StatFailure ==
    /\ statErr = "none" => (visitLog = <<>> /\ readDirLog = <<>>)
    /\ statErr = "PathError" =>
          /\ Len(visitLog) = 1
          /\ visitLog[1].path = Root
          /\ visitLog[1].err = "PathError"
          /\ readDirLog = <<>>
          /\ wpc = "returned"
          /\ walkResult = IF visitLog[1].ret \in {"nil", "SkipDir", "SkipAll"} THEN "nil"
                          ELSE visitLog[1].ret

\* Stat of the root failed in the walk of Sync, whose callback returned the
\* error, and Walk returned it.
C28_Witness ==
    /\ walkVariant = "crawler"
    /\ statErr = "PathError"
    /\ wpc = "returned"
    /\ walkResult = "PathError"
    /\ remoteTree # {}

(***************************************************************************)
(* Claims about the worker pool, the mirrors of a download and the retry   *)
(* rounds.                                                                 *)
(***************************************************************************)
\* C23: at every moment of Sync, in the first pass and in every retry
\* round, the tasks that hold a slot of the worker pool, the only ones with
\* a transaction open or a download in progress, are at most
\* min(available CPUs, 8), however many files were discovered; and
\* defaultWorkers gives that minimum on a machine of any size.
C23_BoundedPool ==
    /\ [](/\ Cardinality(running) <= (IF NumCPU < 8 THEN NumCPU ELSE 8)
          /\ \A cpus \in 1..16 :
                defaultWorkers(cpus) = (IF cpus < 8 THEN cpus ELSE 8))
    /\ [][\A path \in DOMAIN dlIndex :
             (\/ dlIndex'[path] # dlIndex[path]
              \/ dlFiles'[path] # dlFiles[path]
              \/ lastAttempt'[path] # lastAttempt[path])
             => \E e \in running \ running' : e.path = path]_vars

\* In a retry round every slot of the pool is taken and a task is waiting
\* for one.
C23_Witness ==
    /\ syncpc = "retry"
    /\ Cardinality(running) = DefaultWorkers
    /\ CurrentBatch \ (running \cup finished) # {}

\* C24: Download goes through the ranked list in rank order: the k-th
\* mirror it contacts is the k-th of the list, it contacts a mirror only
\* after every mirror before it failed, it contacts none after one that
\* succeeded, and it returns an error only when every mirror of the list
\* failed.
C24_MirrorsInRankOrder ==
    \A path \in DOMAIN lastAttempt :
        LET a == lastAttempt[path]
        IN /\ Len(a.tried) <= Len(validMirrors)
           /\ \A k \in DOMAIN a.tried :
                 /\ a.tried[k].mirror = validMirrors[k]
                 /\ k < Len(a.tried) => a.tried[k].err
           /\ (a.began /\ a.err) =>
                 /\ Len(a.tried) = Len(validMirrors)
                 /\ \A k \in DOMAIN a.tried : a.tried[k].err
           /\ (a.began /\ ~a.err) =>
                 /\ Len(a.tried) >= 1
                 /\ ~a.tried[Len(a.tried)].err

\* For one path the first mirror failed and the second one succeeded; for
\* another path both failed and Download returned the error.
C24_Witness ==
    \E path, other \in DOMAIN lastAttempt :
        /\ lastAttempt[path].began
        /\ ~lastAttempt[path].err
        /\ Len(lastAttempt[path].tried) = 2
        /\ lastAttempt[path].tried[1].err
        /\ commits[path] = 1
        /\ lastAttempt[other].began
        /\ lastAttempt[other].err
        /\ Len(lastAttempt[other].tried) = 2

\* The paths of a set of failure entries.
PathsOf(entries) == {e.path : e \in entries}

\* C25: a download failure never aborts the walk of Sync and is never lost.
\* The walk ends with an error only when a visit of its callback returned
\* one, and a walk that returned nil has dispatched a task for every file
\* below an allow-listed directory; a path whose last task failed is in the
\* failure set, to be run in the next round, up to the moment its next task
\* ends, unless Sync has returned an error; and a task is run for a path
\* only if no task was run for it before or its last task failed.
C25_FailuresAreRetried ==
    /\ [](/\ (wpc = "returned" /\ walkResult # "nil") =>
                \E i \in DOMAIN visitLog : visitLog[i].ret = walkResult
          /\ (wpc = "returned" /\ walkResult = "nil") =>
                \A n \in remoteTree :
                    (~n.isdir /\ Len(n.path) > 1 /\ n.path[1] \in selectedPaths
                       /\ \A i \in DOMAIN visitLog : visitLog[i].err = "nil")
                    => n.path \in PathsOf(spawned)
          /\ \A path \in DOMAIN lastAttempt :
                lastAttempt[path].err =>
                    \/ syncpc = "walk" /\ path \in PathsOf(failed)
                    \/ syncpc = "retry" /\ path \in PathsOf(failed2 \cup (failed \ finished))
                    \/ syncpc = "returned" /\ syncResult # "nil")
    /\ [][\A e \in running \ running' :
             lastAttempt[e.path] = NoAttempt \/ lastAttempt[e.path].err]_vars

\* Sync has returned nil: the task of one path failed in the first pass and
\* succeeded in a retry round, the task of another path succeeded in the
\* first pass and is in no failure set.
C25_Witness ==
    /\ syncpc = "returned"
    /\ syncResult = "nil"
    /\ rounds >= 1
    /\ \E path, other \in DOMAIN lastAttempt :
          /\ path # other
          /\ path \in PathsOf(failed)
          /\ commits[path] = 1
          /\ other \notin PathsOf(failed)
          /\ commits[other] = 1

(***************************************************************************)
(* Claims about a failed validation cycle.                                 *)
(***************************************************************************)
\* C29: a validation cycle fails exactly when none of the mirrors of the
\* pool qualified; the step in which it fails leaves the shared ranked list
\* as it was, so that after a failed revalidation of a running crawler the
\* list is the non-empty ranking of the last successful cycle, and the next
\* revalidation can start.
C29_FailedCycleKeepsRanking ==
    /\ [](vpc = "failed" =>
             /\ Len(probeStats) = Len(Mirrors)
             /\ \A q \in Range(probeStats) : ~q.fourOfFive
             /\ validMirrors = lastCompleted
             /\ mcState = "running" =>
                    /\ Len(validMirrors) > 0
                    /\ ENABLED StartValidate)
    /\ [][(vpc = "probing" /\ vpc' # "probing") =>
             IF \E q \in Range(probeStats) : q.fourOfFive
             THEN vpc' = "published"
             ELSE vpc' = "failed" /\ validMirrors' = validMirrors]_vars

\* A revalidation of a running crawler has failed: every mirror of the pool
\* was probed and none qualified, and the list still ranks both mirrors.
C29_Witness ==
    /\ mcState = "running"
    /\ vpc = "failed"
    /\ Len(probeStats) = Len(Mirrors)
    /\ Len(validMirrors) = Len(Mirrors)

(***************************************************************************)
(* Claims about the publication of regular files.                          *)
(***************************************************************************)
\* C30: in a step of syncMetadata every served row either stays as it was,
\* and then, if it is the row of a regular file to update, the step fails;
\* or it is the row of a regular file to update whose cache file was copied
\* to the served directory, and it becomes the file's download-index row.
C30_PublishedAsUnit ==
    [][reconpc = "sync" =>
         \A path \in DOMAIN servedIndex :
            \/ /\ servedIndex'[path] = servedIndex[path]
               /\ (path \in filesNeedUpdate /\ ~IsStrm(path)) => reconpc' = "failed"
            \/ /\ path \in filesNeedUpdate
               /\ ~IsStrm(path)
               /\ dlFiles[path] # "absent"
               /\ servedIndex'[path] = dlIndex[path]
               /\ servedFiles'[path] = CacheBytes(path)]_vars

\* syncMetadata has failed on one of two regular files after it published
\* the other: one has its new row and its copy, the other the row it had.
C30_Witness ==
    /\ reconpc = "failed"
    /\ runLog.syncFault # "none"
    /\ \E path \in runLog.copies :
          /\ servedIndex[path] = dlIndex[path]
          /\ servedFiles[path] = CacheBytes(path)
    /\ \E path \in filesNeedUpdate \ runLog.copies :
          /\ ~IsStrm(path)
          /\ servedIndex[path] = servedBefore.index[path]
          /\ servedIndex[path] # dlIndex[path]

(***************************************************************************)
(* Claims about the listing snapshot.                                      *)
(***************************************************************************)
\* C31: the ALIST stage calls generateAlistDB exactly when it finds the
\* snapshot absent, older than 24 hours or without rows, in every run mode;
\* so a stage that succeeded and goes on to COMPARE with an empty listing
\* has called it.
C31_SnapshotRebuilt ==
    /\ alLog # NoSnapshotLog /\ alpc # "ALIST" /\ alpc # "failed" =>
           (alLog.rebuilt <=> (alLog.age \in {"absent", "stale"} \/ alLog.rows = {}))
    /\ alpc = "COMPARE" /\ alHanded = {} => alLog.rebuilt

(***************************************************************************)
(* Claims about the paginated listing.                                     *)
(***************************************************************************)
\* What holds of every call: the pages are requested in order from 1, an
\* iteration runs only while count < total, and files is extended by the
\* entries of each page, in the order of the answer.
ReadDirAccumulates ==
    /\ [](pgCount = Len(pgFiles))
    /\ [](pgpc = "returned" => pgResult = pgFiles /\ pgCount >= pgTotal)
    /\ [][pgpc = "loop" /\ pgI' # pgI =>
             /\ pgCount < pgTotal
             /\ pgLast'.page = pgI
             /\ pgI' = pgI + 1
             /\ pgFiles' = pgFiles \o pgLast'.content]_vars

\* C32: every call of ReadDir comes to an end, whatever the listing service
\* answers.
C32_ReadDirTerminates == <>(pgpc \in {"returned", "failed"})

(***************************************************************************)
(* Claims about what Sync returns.                                         *)
(***************************************************************************)
\* C33: when Sync has returned nil, a task has run for every file the walk
\* dispatched and the last one run for it recorded no failure; when the walk
\* returned an error, Sync returns that error and no retry round was started.
C33_SuccessMeansAllDownloaded ==
    /\ syncpc = "returned" /\ syncResult = "nil" =>
           /\ walkResult = "nil"
           /\ \A t \in spawned :
                 /\ lastAttempt[t.path] # NoAttempt
                 /\ ~lastAttempt[t.path].err
    /\ syncpc = "returned" /\ walkResult \notin {"nil", "none"} =>
           /\ syncResult = walkResult
           /\ rounds = 0

\* Sync has returned nil after a retry round: a file whose first download
\* failed was downloaded in a later round.
C33_Witness ==
    /\ syncpc = "returned"
    /\ syncResult = "nil"
    /\ rounds > 0
    /\ \E t \in spawned : commits[t.path] > 0 /\ Len(lastAttempt[t.path].tried) > 0

(***************************************************************************)
(* Claims about the list of a constructed crawler.                         *)
(***************************************************************************)
\* C34: once NewMetadataCrawler has returned the crawler, the shared ranked
\* list is never empty, and neither is a list activeMirrors has handed to
\* Stat, ReadDir or Download, whatever cycles run in the background.
C34_MirrorsNeverEmpty ==
    mcState = "running" =>
        /\ Len(validMirrors) > 0
        /\ \A r \in Readers : readerList[r] # None => Len(readerList[r]) > 0

\* A caller holds the list it obtained from activeMirrors while the last
\* background cycle has found no mirror.
C34_Witness ==
    /\ mcState = "running"
    /\ vpc = "failed"
    /\ \E r \in Readers : readerList[r] # None /\ readerList[r] = validMirrors

(***************************************************************************)
(* Claims about the files Sync dispatches.                                 *)
(***************************************************************************)
\* C35: every file for which the callback of Sync started a download task
\* lies below a top-level directory of the allow-list.
C35_DispatchedAllowListed ==
    walkVariant = "crawler" =>
        \A t \in spawned : Len(t.path) >= 2 /\ t.path[1] \in selectedPaths

\* C36: when ReadDir of a directory outside the allow-list fails, the
\* callback of Sync returns SkipDir for it, so that the walk goes on with
\* its next sibling and the failure is not what Walk returns.
C36_ExcludedDirFailureSkipped ==
    walkVariant = "crawler" =>
        \A i \in DOMAIN visitLog :
            (visitLog[i].path \in ExcludedDirs /\ visitLog[i].err # "nil") =>
                /\ visitLog[i].ret = "SkipDir"
                /\ wpc = "returned" => walkResult # visitLog[i].err

(***************************************************************************)
(* Claims about the served directory and its index.                        *)
(***************************************************************************)
\* C37: when the last run of the reconciliation has succeeded, every file
\* its syncMetadata wrote to the served directory, placeholder or regular
\* file, has a row in the served index.
C37_ServedFilesIndexed ==
    reconpc = "done" =>
        \A w \in runLog.servedWrites : servedIndex[w.path] # NoRow

(***************************************************************************)
(* Claims about the sends of Config.Run.                                   *)
(***************************************************************************)
\* The statuses and the errors Run has sent so far: those still in the
\* channels and those the command has received.
StatusesSent == Len(ecodeCh) + (IF mainpc = "recvEcode" THEN 0 ELSE 1)
ErrorsSent == Len(errCh) + (IF mainpc \in {"recvEcode", "recvErr"} THEN 0 ELSE 1)

\* C38: in one-shot mode Run never sends a second status or a second error,
\* and when it has returned it has sent one of each.
C38_OneStatusOneError ==
    ~RunAsDaemon =>
        /\ StatusesSent <= 1
        /\ ErrorsSent <= 1
        /\ opc = "returned" => StatusesSent = 1 /\ ErrorsSent = 1

(***************************************************************************)
(* Claims about the download directory and its index.                      *)
(***************************************************************************)
\* C39: a cache file that has a row in the download index is whole, and has
\* the content of this run only with the row committed in this run.
C39_CacheMatchesIndex ==
    \A path \in DOMAIN dlIndex :
        (dlIndex[path] # NoRow /\ dlFiles[path] # "absent") =>
            /\ dlFiles[path] # "partial"
            /\ dlFiles[path] = "new" => dlIndex[path] = RemoteMeta

(***************************************************************************)
(* Claims about placeholders that share a target.                          *)
(***************************************************************************)
\* C40: in the live variant with purge, every scanned placeholder whose
\* target the listing does not have is left out of the preserve set, also
\* when another placeholder embeds the same target.
C40_EachPlaceholderVerified ==
    (cmppc = "done" /\ cmpVariant = "live" /\ cmpPurge) =>
        \A fpath \in LiveScanned :
            EmbeddedTarget(cmpContents[fpath]).path \notin cmpListing =>
                fpath \notin cmpPreserve

====
